---- MODULE Spec2Model ----
(***************************************************************************)
(* Calico CNI plugin: the ADD/DEL command state machine, the endpoint      *)
(* identity model, IPAM delegation/compensation and veth wiring, over a    *)
(* datastore of WorkloadEndpoints, an IPAM delegate and the host's links.  *)
(*                                                                         *)
(* The helpers of utils/utils.go are translated from their source.  The    *)
(* command core (cmdAdd/cmdDel), DoNetworking, the datastore client and    *)
(* the IPAM delegate are not part of the sources at hand; they are         *)
(* modelled from the specification (sections 4.1-4.5) and from the         *)
(* behaviour the test suites observe.                                      *)
(***************************************************************************)
EXTENDS Integers, Sequences, FiniteSets, TLC

VARIABLES
    weps,       \* datastore: the set of WorkloadEndpoint records
    ipam,       \* IPAM delegate: the set of reservations [handle, addr]
    links,      \* kernel: the set of veth pairs [host, ns, ifname]
    pc,         \* pc[p]: the position of plugin process p
    inv,        \* inv[p]: the invocation (env, stdin, environment faults) of p
    loc,        \* loc[p]: the local variables of process p
    pre,        \* pre[p]: datastore, IPAM and links when p's invocation began
    results,    \* results[cid]: Result printed by the ADD that published cid's endpoint
    profiles    \* datastore: the set of Profile records

vars == <<weps, ipam, links, pc, inv, loc, pre, results, profiles>>

-----------------------------------------------------------------------------
(* Bounds of the model *)

\* number of addresses in the IPAM pool
PoolSize == 2
\* ResourceVersions are opaque; a write takes the least one nobody holds
RVSpace == 12
\* how often a helper is called again on its own result
MaxCalls == 3

(* Program constants *)

\* the host-side name keeps at most this many characters of the ContainerID
VethIDLen == 11
\* prefix length of the test pool 10.0.0.0/24 the delegate allocates from
SubnetBits == 24

-----------------------------------------------------------------------------
(* Values *)

Procs == {1, 2}

NoEndpoint == [Name |-> ""]
NoResult == [IPs |-> <<>>, err |-> TRUE]

OSHostname == "host1"

\* /var/lib/calico/nodename: absent on the hosts of the test suites
File(state, data) == [state |-> state, data |-> data]
NodenameFile == File("absent", "")

\* addresses: 10.0.0.n and fd80::n
IPv4(n) == [fam |-> 4, host |-> n]
IPv6(n) == [fam |-> 6, host |-> n]

\* what the runtime passes for a container: its ContainerID, the pod it belongs
\* to, the interface name (CNI_IFNAME) and, of the pod's annotations, the
\* addresses of cni.projectcalico.org/ipAddrsNoIpam
Container(cid, ns, pod, ifname, addrs) ==
    [ContainerID |-> cid, K8S_POD_NAMESPACE |-> ns, K8S_POD_NAME |-> pod,
     IfName |-> ifname, ipAddrsNoIpam |-> addrs]

\* The containers the runtime creates: X and Y are two sandboxes of the pod
\* "mypod", Z is the sandbox of the pod "mypod-1", abc123 is a container of a
\* generic CNI runtime (no Kubernetes arguments).
Containers ==
    { Container("container-id-00X", "test", "mypod", "eth0", <<>>),
      Container("container-id-00Y", "test", "mypod", "eth0", <<>>),
      Container("container-id-00Z", "test", "mypod-1", "eth0", <<>>),
      Container("abc123", "", "", "eth0", <<>>) }

\* More of them: the sandbox X asked for again under the interface name "eth1",
\* and pods whose annotation asks for one IPv4 address, for two, and for one
\* IPv6 address.
ExtContainers ==
    { Container("container-id-00X", "test", "mypod", "eth0", <<>>),
      Container("container-id-00X", "test", "mypod", "eth1", <<>>),
      Container("container-id-00Y", "test", "mypod", "eth0", <<>>),
      Container("run1", "test", "run1", "eth0", <<IPv4(1)>>),
      Container("run2", "test", "run2", "eth0", <<IPv4(1), IPv4(2)>>),
      Container("run3", "test", "run3", "eth0", <<IPv6(1)>>) }

ContainerIDs == { c.ContainerID : c \in Containers \cup ExtContainers }

NetConfs ==
    { [Name |-> "net1", Nodename |-> "", Hostname |-> "",
       IPAM |-> [Type |-> "calico-ipam", Subnet |-> ""]] }

\* what the environment does to this invocation
AddFaults == {"none", "ipam", "wire", "publish"}
NetnsKinds == {"ok", "nopath", "empty"}

Pool == 1..PoolSize

-----------------------------------------------------------------------------
(* utils/utils.go *)

Min(a, b) == IF a < b THEN a ELSE b

\* nodenameFromFile: the file's content, "" when it is absent or unreadable
nodenameFromFile(file) == IF file.state = "ok" THEN file.data ELSE ""

\* variant: the priority the function's comment gives (hostname of the NetConf
\* before everything else)
DetermineNodenameOn_HostnameFirst(conf, hostname, file) ==
    LET n0 == hostname
        n1 == IF conf.Nodename # "" THEN conf.Nodename ELSE n0
        n2 == IF nodenameFromFile(file) # "" THEN nodenameFromFile(file) ELSE n1
    IN  IF conf.Hostname # "" THEN conf.Hostname ELSE n2

\* the body of DetermineNodename on a host with this OS hostname and this file
DetermineNodenameOn(conf, hostname, file) ==
    LET n0 == hostname
        n1 == IF conf.Hostname # "" THEN conf.Hostname ELSE n0
        n2 == IF nodenameFromFile(file) # "" THEN nodenameFromFile(file) ELSE n1
    IN  IF conf.Nodename # "" THEN conf.Nodename ELSE n2

DetermineNodename(conf) == DetermineNodenameOn(conf, OSHostname, NodenameFile)

\* variant: the assignment of epIDs.ContainerID is missing
GetIdentifiers_NoContainerID(args, nodename) ==
    IF args.Args.K8S_POD_NAMESPACE # "" /\ args.Args.K8S_POD_NAME # ""
    THEN [ContainerID |-> "", Node |-> nodename, Endpoint |-> args.IfName,
          Orchestrator |-> "k8s", Pod |-> args.Args.K8S_POD_NAME,
          Namespace |-> args.Args.K8S_POD_NAMESPACE, WEPName |-> ""]
    ELSE [ContainerID |-> "", Node |-> nodename, Endpoint |-> args.IfName,
          Orchestrator |-> "cni", Pod |-> "",
          Namespace |-> IF args.Args.CNI_TEST_NAMESPACE # ""
                        THEN args.Args.CNI_TEST_NAMESPACE ELSE "default",
          WEPName |-> ""]

\* variant: the pod's name is read from the other Kubernetes argument
GetIdentifiers_PodFromNamespace(args, nodename) ==
    IF args.Args.K8S_POD_NAMESPACE # "" /\ args.Args.K8S_POD_NAME # ""
    THEN [ContainerID |-> args.ContainerID, Node |-> nodename, Endpoint |-> args.IfName,
          Orchestrator |-> "k8s", Pod |-> args.Args.K8S_POD_NAMESPACE,
          Namespace |-> args.Args.K8S_POD_NAMESPACE, WEPName |-> ""]
    ELSE [ContainerID |-> args.ContainerID, Node |-> nodename, Endpoint |-> args.IfName,
          Orchestrator |-> "cni", Pod |-> "",
          Namespace |-> IF args.Args.CNI_TEST_NAMESPACE # ""
                        THEN args.Args.CNI_TEST_NAMESPACE ELSE "default",
          WEPName |-> ""]

\* variant: the endpoint is always "eth0", whatever CNI_IFNAME says
GetIdentifiers_FixedEndpoint(args, nodename) ==
    IF args.Args.K8S_POD_NAMESPACE # "" /\ args.Args.K8S_POD_NAME # ""
    THEN [ContainerID |-> args.ContainerID, Node |-> nodename, Endpoint |-> "eth0",
          Orchestrator |-> "k8s", Pod |-> args.Args.K8S_POD_NAME,
          Namespace |-> args.Args.K8S_POD_NAMESPACE, WEPName |-> ""]
    ELSE [ContainerID |-> args.ContainerID, Node |-> nodename, Endpoint |-> "eth0",
          Orchestrator |-> "cni", Pod |-> "",
          Namespace |-> IF args.Args.CNI_TEST_NAMESPACE # ""
                        THEN args.Args.CNI_TEST_NAMESPACE ELSE "default",
          WEPName |-> ""]

\* variant: one of the two Kubernetes arguments is enough
GetIdentifiers_EitherArg(args, nodename) ==
    IF args.Args.K8S_POD_NAMESPACE # "" \/ args.Args.K8S_POD_NAME # ""
    THEN [ContainerID |-> args.ContainerID, Node |-> nodename, Endpoint |-> args.IfName,
          Orchestrator |-> "k8s", Pod |-> args.Args.K8S_POD_NAME,
          Namespace |-> args.Args.K8S_POD_NAMESPACE, WEPName |-> ""]
    ELSE [ContainerID |-> args.ContainerID, Node |-> nodename, Endpoint |-> args.IfName,
          Orchestrator |-> "cni", Pod |-> "",
          Namespace |-> IF args.Args.CNI_TEST_NAMESPACE # ""
                        THEN args.Args.CNI_TEST_NAMESPACE ELSE "default",
          WEPName |-> ""]

GetIdentifiers(args, nodename) ==
    IF args.Args.K8S_POD_NAMESPACE # "" /\ args.Args.K8S_POD_NAME # ""
    THEN [ContainerID |-> args.ContainerID, Node |-> nodename, Endpoint |-> args.IfName,
          Orchestrator |-> "k8s", Pod |-> args.Args.K8S_POD_NAME,
          Namespace |-> args.Args.K8S_POD_NAMESPACE, WEPName |-> ""]
    ELSE [ContainerID |-> args.ContainerID, Node |-> nodename, Endpoint |-> args.IfName,
          Orchestrator |-> "cni", Pod |-> "",
          Namespace |-> IF args.Args.CNI_TEST_NAMESPACE # ""
                        THEN args.Args.CNI_TEST_NAMESPACE ELSE "default",
          WEPName |-> ""]

\* variant: the handle is the network's name alone
GetHandleID_NetworkOnly(netName, containerID) == netName

GetHandleID(netName, containerID) == netName \o "." \o containerID

\* ValidateNetworkName: the regular expression ^[a-zA-Z0-9_\.\-]+$
NameChars ==
    { "a","b","c","d","e","f","g","h","i","j","k","l","m","n","o","p","q","r","s","t",
      "u","v","w","x","y","z","A","B","C","D","E","F","G","H","I","J","K","L","M","N",
      "O","P","Q","R","S","T","U","V","W","X","Y","Z","0","1","2","3","4","5","6","7",
      "8","9","_",".","-" }

\* variant: the expression ends in * and takes the empty name too
ValidateNetworkName_Star(name) ==
    \A i \in 1..Len(name) : SubSeq(name, i, i) \in NameChars

\* TRUE when the name is accepted (the Go function returns a nil error)
ValidateNetworkName(name) ==
    /\ Len(name) >= 1
    /\ \A i \in 1..Len(name) : SubSeq(name, i, i) \in NameChars

\* the variables CreateClient sets, in the order of its code
ClientEnvVars ==
    << "ETCD_AUTHORITY", "ETCD_ENDPOINTS", "ETCD_SCHEME", "ETCD_KEY_FILE",
       "ETCD_CERT_FILE", "ETCD_CA_CERT_FILE", "DATASTORE_TYPE", "KUBECONFIG",
       "K8S_API_ENDPOINT", "K8S_API_TOKEN", "ALPHA_FEATURES" >>

\* the field of the NetConf that goes into the variable
ClientConfField(conf, var) ==
    CASE var = "ETCD_AUTHORITY" -> conf.EtcdAuthority
      [] var = "ETCD_ENDPOINTS" -> conf.EtcdEndpoints
      [] var = "ETCD_SCHEME" -> conf.EtcdScheme
      [] var = "ETCD_KEY_FILE" -> conf.EtcdKeyFile
      [] var = "ETCD_CERT_FILE" -> conf.EtcdCertFile
      [] var = "ETCD_CA_CERT_FILE" -> conf.EtcdCaCertFile
      [] var = "DATASTORE_TYPE" -> conf.DatastoreType
      [] var = "KUBECONFIG" -> conf.Kubernetes.Kubeconfig
      [] var = "K8S_API_ENDPOINT" -> conf.Kubernetes.K8sAPIRoot
      [] var = "K8S_API_TOKEN" -> conf.Policy.K8sAuthToken
      [] var = "ALPHA_FEATURES" -> conf.AlphaFeatures

\* no client
NoClient == [made |-> FALSE]

\* the if-blocks of CreateClient from the i-th on: a field that is not empty is
\* put into its variable; os.Setenv failing (at variable failAt) ends the
\* function with what was set so far
RECURSIVE SetClientEnv(_, _, _, _)
SetClientEnv(i, conf, env, failAt) ==
    IF i > Len(ClientEnvVars)
    THEN [err |-> FALSE, env |-> env]
    ELSE LET var == ClientEnvVars[i]
         IN  IF ClientConfField(conf, var) = ""
             THEN SetClientEnv(i + 1, conf, env, failAt)
             ELSE IF failAt = var
             THEN [err |-> TRUE, env |-> env]
             ELSE SetClientEnv(i + 1, conf,
                               [env EXCEPT ![var] = ClientConfField(conf, var)], failAt)

\* variant: the network name is validated after the environment is set
CreateClient_ValidatesLast(conf, env, failAt, loadOK) ==
    LET set == SetClientEnv(1, conf, env, failAt)
    IN  IF set.err \/ ~ValidateNetworkName(conf.Name) \/ ~loadOK
        THEN [err |-> TRUE, env |-> set.env, client |-> NoClient]
        ELSE [err |-> FALSE, env |-> set.env, client |-> [made |-> TRUE, config |-> set.env]]

\* variant: every variable is set, to the empty value when the field is empty
CreateClient_SetsAlways(conf, env, failAt, loadOK) ==
    IF ~ValidateNetworkName(conf.Name)
    THEN [err |-> TRUE, env |-> env, client |-> NoClient]
    ELSE LET all == [v \in DOMAIN env |-> ClientConfField(conf, v)]
         IN  IF ~loadOK
             THEN [err |-> TRUE, env |-> all, client |-> NoClient]
             ELSE [err |-> FALSE, env |-> all, client |-> [made |-> TRUE, config |-> all]]

\* utils.CreateClient; env is the process environment, failAt the variable at
\* which os.Setenv fails ("none": at none), loadOK whether the client can be
\* made from the environment
CreateClient(conf, env, failAt, loadOK) ==
    IF ~ValidateNetworkName(conf.Name)
    THEN [err |-> TRUE, env |-> env, client |-> NoClient]
    ELSE LET set == SetClientEnv(1, conf, env, failAt)
         IN  IF set.err \/ ~loadOK
             THEN [err |-> TRUE, env |-> set.env, client |-> NoClient]
             ELSE [err |-> FALSE, env |-> set.env,
                   client |-> [made |-> TRUE, config |-> set.env]]

\* variant: the option is put after the arguments, as the function's comment says
AddIgnoreUnknownArgs_Appends(cniArgs) ==
    IF cniArgs # "" THEN cniArgs \o ";" \o "IgnoreUnknown=1" ELSE "IgnoreUnknown=1"

AddIgnoreUnknownArgs(cniArgs) ==
    IF cniArgs # "" THEN "IgnoreUnknown=1" \o ";" \o cniArgs ELSE "IgnoreUnknown=1"

\* net.CIDRMask(ones, bits)
CIDRMask(ones, bits) == [ones |-> ones, bits |-> bits]

\* the text "<nil>" that net.IPNet.String() gives an address that fits no mask
NilNet == [ip |-> [fam |-> 0, host |-> 0], ones |-> 0]

\* net.IPNet.String(): an IPv4 address under a 128-bit mask keeps the mask's last
\* 32 bits; an IPv6 address under a 32-bit mask has no network form ("<nil>")
FormatIPNet(n) ==
    IF n.IP.fam = 4
    THEN [ip |-> n.IP, ones |-> IF n.Mask.bits = 128
                                 THEN (IF n.Mask.ones >= 96 THEN n.Mask.ones - 96 ELSE 0)
                                 ELSE n.Mask.ones]
    ELSE IF n.Mask.bits = 128 THEN [ip |-> n.IP, ones |-> n.Mask.ones] ELSE NilNet

\* net.ParseCIDR: the address, and the network (address masked, with its mask)
ParseCIDR(v) ==
    LET bits == IF v.ip.fam = 4 THEN 32 ELSE 128
    IN  IF v = NilNet \/ v.ones > bits
        THEN [err |-> TRUE]
        ELSE [err |-> FALSE, ipAddr |-> v.ip,
             ipNet |-> [IP |-> IF v.ones = bits THEN v.ip ELSE [v.ip EXCEPT !.host = 0],
                        Mask |-> CIDRMask(v.ones, bits)]]

RECURSIVE ResultIPsFrom(_)
ResultIPsFrom(nets) ==
    IF nets = <<>> THEN <<>>
    ELSE LET c == ParseCIDR(Head(nets))
         IN  <<[Version |-> IF c.ipAddr.fam = 4 THEN "4" ELSE "6", Address |-> c.ipNet]>>
             \o ResultIPsFrom(Tail(nets))

\* variant: every entry is reported as Version "4"
CreateResultFromEndpoint_VersionFour(wep) ==
    IF \E i \in 1..Len(wep.IPNetworks) : ParseCIDR(wep.IPNetworks[i]).err
    THEN [IPs |-> <<>>, err |-> TRUE]
    ELSE [IPs |-> [i \in 1..Len(wep.IPNetworks) |->
                     [ResultIPsFrom(wep.IPNetworks)[i] EXCEPT !.Version = "4"]],
          err |-> FALSE]

CreateResultFromEndpoint(wep) ==
    IF \E i \in 1..Len(wep.IPNetworks) : ParseCIDR(wep.IPNetworks[i]).err
    THEN [IPs |-> <<>>, err |-> TRUE]
    ELSE [IPs |-> ResultIPsFrom(wep.IPNetworks), err |-> FALSE]

\* the mask PopulateEndpointNets writes into an entry of the Result
HostMask(ipc) == IF ipc.Version = "4" THEN CIDRMask(32, 32) ELSE CIDRMask(128, 128)

\* variant: the delegate's mask is kept, the endpoint lists the pool's prefix
PopulateEndpointNets_KeepMask(wep, result) ==
    IF Len(result.IPs) = 0
    THEN [err |-> TRUE, wep |-> wep, result |-> result]
    ELSE [err |-> FALSE,
          wep |-> [wep EXCEPT !.IPNetworks =
                      @ \o [i \in 1..Len(result.IPs) |-> FormatIPNet(result.IPs[i].Address)]],
          result |-> result]

\* variant: the loop works on a copy of each entry, the Result keeps its masks
PopulateEndpointNets_CopyEntry(wep, result) ==
    IF Len(result.IPs) = 0
    THEN [err |-> TRUE, wep |-> wep, result |-> result]
    ELSE LET masked == [i \in 1..Len(result.IPs) |->
                          [result.IPs[i] EXCEPT !.Address.Mask = HostMask(result.IPs[i])]]
         IN  [err |-> FALSE,
              wep |-> [wep EXCEPT !.IPNetworks =
                          @ \o [i \in 1..Len(masked) |-> FormatIPNet(masked[i].Address)]],
              result |-> result]

\* variant: the two masks are exchanged
PopulateEndpointNets_SwappedMasks(wep, result) ==
    IF Len(result.IPs) = 0
    THEN [err |-> TRUE, wep |-> wep, result |-> result]
    ELSE LET masked == [i \in 1..Len(result.IPs) |->
                          [result.IPs[i] EXCEPT !.Address.Mask =
                              IF result.IPs[i].Version = "4"
                              THEN CIDRMask(128, 128) ELSE CIDRMask(32, 32)]]
         IN  [err |-> FALSE,
              wep |-> [wep EXCEPT !.IPNetworks =
                          @ \o [i \in 1..Len(masked) |-> FormatIPNet(masked[i].Address)]],
              result |-> [result EXCEPT !.IPs = masked]]

\* variant: the entries the endpoint had are dropped
PopulateEndpointNets_Replaces(wep, result) ==
    IF Len(result.IPs) = 0
    THEN [err |-> TRUE, wep |-> wep, result |-> result]
    ELSE LET masked == [i \in 1..Len(result.IPs) |->
                          [result.IPs[i] EXCEPT !.Address.Mask = HostMask(result.IPs[i])]]
         IN  [err |-> FALSE,
              wep |-> [wep EXCEPT !.IPNetworks =
                          [i \in 1..Len(masked) |-> FormatIPNet(masked[i].Address)]],
              result |-> [result EXCEPT !.IPs = masked]]

\* PopulateEndpointNets changes both the endpoint and the Result it is given
PopulateEndpointNets(wep, result) ==
    IF Len(result.IPs) = 0
    THEN [err |-> TRUE, wep |-> wep, result |-> result]
    ELSE LET masked == [i \in 1..Len(result.IPs) |->
                          [result.IPs[i] EXCEPT !.Address.Mask = HostMask(result.IPs[i])]]
         IN  [err |-> FALSE,
              wep |-> [wep EXCEPT !.IPNetworks =
                          @ \o [i \in 1..Len(masked) |-> FormatIPNet(masked[i].Address)]],
              result |-> [result EXCEPT !.IPs = masked]]

-----------------------------------------------------------------------------
(* The datastore client (section 4.5).  ResourceVersion 0 is the empty one. *)

SameKey(a, b) == a.Namespace = b.Namespace /\ a.Name = b.Name

GetEndpoint(store, namespace, name) ==
    IF \E w \in store : w.Namespace = namespace /\ w.Name = name
    THEN CHOOSE w \in store : w.Namespace = namespace /\ w.Name = name
    ELSE NoEndpoint

\* Create: refused when the key is taken; the stored copy gets a new version
Create(store, wep, rv) ==
    IF \E w \in store : SameKey(w, wep)
    THEN [err |-> TRUE, conflict |-> FALSE, store |-> store]
    ELSE [err |-> FALSE, conflict |-> FALSE,
          store |-> store \cup {[wep EXCEPT !.ResourceVersion = rv]}]

\* Update: refused when the key is absent or its version is not the one given
\* (a conflict)
Update(store, wep, rv) ==
    IF \E w \in store : SameKey(w, wep) /\ w.ResourceVersion = wep.ResourceVersion
    THEN [err |-> FALSE, conflict |-> FALSE,
          store |-> { w \in store : ~SameKey(w, wep) }
                       \cup {[wep EXCEPT !.ResourceVersion = rv]}]
    ELSE [err |-> TRUE, conflict |-> \E w \in store : SameKey(w, wep), store |-> store]

\* Delete(namespace, name, expectedContainerID)
Delete(store, namespace, name, expectedContainerID) ==
    { w \in store : ~(/\ w.Namespace = namespace /\ w.Name = name
                      /\ w.ContainerID = expectedContainerID) }

\* variant: an Update that is refused is followed by a Create
CreateOrUpdate_FallsBack(store, wep, rv) ==
    IF wep.ResourceVersion # 0
    THEN IF Update(store, wep, rv).err
         THEN Create(store, [wep EXCEPT !.ResourceVersion = 0], rv)
         ELSE Update(store, wep, rv)
    ELSE Create(store, wep, rv)

\* utils.CreateOrUpdate; rv is the version the datastore gives the write
CreateOrUpdate(store, wep, rv) ==
    IF wep.ResourceVersion # 0 THEN Update(store, wep, rv) ELSE Create(store, wep, rv)

-----------------------------------------------------------------------------
(* The IPAM delegate, an external executable keyed by the handle *)

ExecAdd(stdinData, containerID, store, addr) ==
    store \cup {[handle |-> GetHandleID(stdinData.Name, containerID), addr |-> addr]}

ExecDel(stdinData, containerID, store) ==
    { r \in store : r.handle # GetHandleID(stdinData.Name, containerID) }

IPsByHandle(store, handle) == { r.addr : r \in { q \in store : q.handle = handle } }

FreeAddrs(store) == Pool \ { r.addr : r \in store }

\* strings.EqualFold, on the subnet values the configurations use
ToLower(s) ==
    CASE s = "usePodCidr" -> "usepodcidr"
      [] s = "USEPODCIDR" -> "usepodcidr"
      [] OTHER -> s
EqualFold(a, b) == ToLower(a) = ToLower(b)

\* variant: the delegate is never run, only the stdin is prepared
CleanUpIPAM_NoExecDel(conf, args, store, delegateOK) ==
    LET stdinData ==
            IF conf.IPAM.Type = "host-local" /\ EqualFold(conf.IPAM.Subnet, "usePodCidr")
            THEN [args.StdinData EXCEPT !.IPAM.Subnet = "0.0.0.0/0"]
            ELSE args.StdinData
    IN  [err |-> FALSE, StdinData |-> stdinData, store |-> store]

\* variant: the subnet is compared with ==, letter case included
CleanUpIPAM_ExactCase(conf, args, store, delegateOK) ==
    LET stdinData ==
            IF conf.IPAM.Type = "host-local" /\ conf.IPAM.Subnet = "usePodCidr"
            THEN [args.StdinData EXCEPT !.IPAM.Subnet = "0.0.0.0/0"]
            ELSE args.StdinData
    IN  [err |-> ~delegateOK,
         StdinData |-> stdinData,
         store |-> IF delegateOK THEN ExecDel(stdinData, args.ContainerID, store)
                   ELSE store]

\* utils.CleanUpIPAM; delegateOK is whether the delegate's DEL run succeeds
CleanUpIPAM(conf, args, store, delegateOK) ==
    LET stdinData ==
            IF conf.IPAM.Type = "host-local" /\ EqualFold(conf.IPAM.Subnet, "usePodCidr")
            THEN [args.StdinData EXCEPT !.IPAM.Subnet = "0.0.0.0/0"]
            ELSE args.StdinData
    IN  [err |-> ~delegateOK,
         StdinData |-> stdinData,
         store |-> IF delegateOK THEN ExecDel(stdinData, args.ContainerID, store)
                   ELSE store]

\* one run of the delegate: the executable, its CNI_COMMAND and its stdin
DelegateRun(plugin, command, stdinData) ==
    [plugin |-> plugin, CNI_COMMAND |-> command, stdin |-> stdinData]

\* variant: the test of Setenv's error is inverted
ReleaseIPAllocation_InvertedSetenv(args, ipamType, stdinData, store, setenvOK, delegateOK) ==
    IF setenvOK
    THEN [invoked |-> FALSE, err |-> FALSE, runs |-> <<>>, store |-> store]
    ELSE [invoked |-> TRUE, err |-> FALSE,
          runs |-> <<DelegateRun(ipamType, "DEL", stdinData)>>,
          store |-> IF delegateOK THEN ExecDel(stdinData, args.ContainerID, store)
                    ELSE store]

\* variant: the delegate is run though CNI_COMMAND could not be set, and its
\* failure is returned
ReleaseIPAllocation_Propagates(args, ipamType, stdinData, store, setenvOK, delegateOK) ==
    [invoked |-> TRUE, err |-> ~delegateOK,
     runs |-> <<DelegateRun(ipamType, IF setenvOK THEN "DEL" ELSE "ADD", stdinData)>>,
     store |-> IF delegateOK /\ setenvOK THEN ExecDel(stdinData, args.ContainerID, store)
               ELSE store]

\* utils.ReleaseIPAllocation: nothing is returned (err is what the caller gets
\* to see), failures are only logged; runs are the runs of the delegate
ReleaseIPAllocation(args, ipamType, stdinData, store, setenvOK, delegateOK) ==
    IF ~setenvOK
    THEN [invoked |-> FALSE, err |-> FALSE, runs |-> <<>>, store |-> store]
    ELSE [invoked |-> TRUE, err |-> FALSE,
          runs |-> <<DelegateRun(ipamType, "DEL", stdinData)>>,
          store |-> IF delegateOK THEN ExecDel(stdinData, args.ContainerID, store)
                    ELSE store]

-----------------------------------------------------------------------------
(* Links: veth pairs, the host end named host, the peer named ifname in ns *)

NetnsOf(containerID) == "/var/run/netns/" \o containerID
NetnsPaths == { NetnsOf(c) : c \in ContainerIDs }

LinkByName(lnks, netns, ifName) ==
    netns \in NetnsPaths /\ \E l \in lnks : l.ns = netns /\ l.ifname = ifName

\* variant: the error of the device lookup is returned
CleanUpNamespace_ReturnsDevErr(args, lnks, delOK) ==
    IF args.Netns # ""
    THEN IF LinkByName(lnks, args.Netns, args.IfName)
         THEN IF delOK
              THEN [err |-> FALSE,
                    links |-> { l \in lnks :
                                  ~(l.ns = args.Netns /\ l.ifname = args.IfName) }]
              ELSE [err |-> TRUE, links |-> lnks]
         ELSE [err |-> TRUE, links |-> lnks]
    ELSE [err |-> FALSE, links |-> lnks]

\* variant: the device is looked up and never deleted
CleanUpNamespace_NoDelete(args, lnks, delOK) ==
    [err |-> FALSE, links |-> lnks]

\* utils.CleanUpNamespace; delOK is whether deleting a link that exists succeeds
CleanUpNamespace(args, lnks, delOK) ==
    IF args.Netns # ""
    THEN IF LinkByName(lnks, args.Netns, args.IfName)
         THEN IF delOK
              THEN [err |-> FALSE,
                    links |-> { l \in lnks :
                                  ~(l.ns = args.Netns /\ l.ifname = args.IfName) }]
              ELSE [err |-> TRUE, links |-> lnks]
         ELSE [err |-> FALSE, links |-> lnks]
    ELSE [err |-> FALSE, links |-> lnks]

\* the host-side name: from (Namespace, Pod) under Kubernetes, "cali" and the
\* first characters of the ContainerID otherwise
HostVethName(epIDs) ==
    IF epIDs.Orchestrator = "k8s"
    THEN "cali:" \o epIDs.Namespace \o "." \o epIDs.Pod
    ELSE "cali" \o SubSeq(epIDs.ContainerID, 1, Min(VethIDLen, Len(epIDs.ContainerID)))

\* variant: a link that has the host-side name is not deleted, and creating the
\* pair under a name that is taken fails
DoNetworking_KeepsStale(args, hostVethName, lnks, ok) ==
    IF ok /\ ~\E l \in lnks : l.host = hostVethName
    THEN [err |-> FALSE,
          links |-> lnks \cup {[host |-> hostVethName, ns |-> args.Netns,
                                ifname |-> args.IfName]}]
    ELSE [err |-> TRUE, links |-> lnks]

\* DoNetworking (section 4.4): a link that has the host-side name is deleted
\* first, then the pair is created; when it fails nothing of it is left
DoNetworking(args, hostVethName, lnks, ok) ==
    IF ok
    THEN [err |-> FALSE,
          links |-> { l \in lnks : l.host # hostVethName }
                      \cup {[host |-> hostVethName, ns |-> args.Netns,
                             ifname |-> args.IfName]}]
    ELSE [err |-> TRUE, links |-> lnks]

\* names.CalculateWorkloadEndpointName (section 3)
CalculateWorkloadEndpointName(epIDs) ==
    IF epIDs.Orchestrator = "k8s"
    THEN epIDs.Node \o "-k8s-" \o epIDs.Pod \o "-" \o epIDs.Endpoint
    ELSE epIDs.Node \o "-cni-" \o epIDs.ContainerID \o "-" \o epIDs.Endpoint

\* ListByPod: the endpoints of the workload, whatever their interface name
ListByPod(store, epIDs) ==
    { w \in store :
        /\ w.Namespace = epIDs.Namespace /\ w.Node = epIDs.Node
        /\ w.Orchestrator = epIDs.Orchestrator
        /\ IF epIDs.Orchestrator = "k8s" THEN w.Pod = epIDs.Pod
           ELSE w.ContainerID = epIDs.ContainerID }

-----------------------------------------------------------------------------
(* Plugin processes: one invocation of the binary each *)

NoInv == [cmd |-> "NONE"]
NoLoc == [exit |-> -1]
NoPre == [weps |-> {}, ipam |-> {}, links |-> {}, profiles |-> {}]

NoPath == "/not/a/real/path1234567890"

CmdArgs(c, conf, netns) ==
    [ContainerID |-> c.ContainerID, Netns |-> netns, IfName |-> c.IfName,
     Args |-> [K8S_POD_NAMESPACE |-> c.K8S_POD_NAMESPACE,
               K8S_POD_NAME |-> c.K8S_POD_NAME, CNI_TEST_NAMESPACE |-> ""],
     StdinData |-> conf]

\* the CNI_ARGS the runtime sets for container c
CniArgsEnv(c) ==
    IF c.K8S_POD_NAME = "" THEN ""
    ELSE "K8S_POD_NAMESPACE=" \o c.K8S_POD_NAMESPACE \o ";K8S_POD_NAME=" \o c.K8S_POD_NAME

Init ==
    /\ weps = {}
    /\ ipam = {}
    /\ links = {}
    /\ pc = [p \in Procs |-> "idle"]
    /\ inv = [p \in Procs |-> NoInv]
    /\ loc = [p \in Procs |-> NoLoc]
    /\ pre = [p \in Procs |-> NoPre]
    /\ results = [c \in ContainerIDs |-> NoResult]
    /\ profiles = {}

\* the ResourceVersions somebody holds: stored, read by a process, or remembered
HeldRVs ==
    { w.ResourceVersion : w \in weps }
        \cup { w.ResourceVersion : w \in UNION { pre[p].weps : p \in Procs } }
        \cup { loc[p].endpoint.ResourceVersion :
                 p \in { q \in Procs : pc[q] \notin {"idle", "done"} } }
FreshRV == CHOOSE n \in 1..RVSpace : n \notin HeldRVs /\ \A m \in 1..(n-1) : m \in HeldRVs

NewEndpoint == [Name |-> "", Namespace |-> "", Pod |-> "", InterfaceName |-> "",
                IPNetworks |-> <<>>, Profiles |-> <<>>, Node |-> "", Endpoint |-> "",
                ContainerID |-> "", Orchestrator |-> "", ResourceVersion |-> 0]

\* the locals of a process; the fields after CNI_ARGS only record what it did
NewLoc(args, conf, epIDs, cniArgs) ==
    [exit |-> -1, args |-> args, conf |-> conf, epIDs |-> epIDs,
     endpoint |-> NewEndpoint, result |-> NoResult, CNI_ARGS |-> cniArgs,
     ipamAdd |-> 0, ipamFailed |-> FALSE, relCalls |-> 0, didWire |-> FALSE,
     wireErr |-> FALSE, publishErr |-> FALSE, wrote |-> FALSE,
     retries |-> 0, conflicts |-> 0,
     unwound |-> FALSE, released |-> FALSE, ipamErr |-> FALSE]

\* variant: an IPAM failure is compensated like a wiring failure
FailedAddNext_ReleaseAlways(stage) ==
    CASE stage = "ipam" -> "release"
      [] stage = "wire" -> "release"
      [] stage = "publish" -> "unwire"

\* Error taxonomy (section 7): where a first ADD goes when a stage fails.
\* IPAM errors: nothing to roll back; wiring errors: compensating IPAM DEL;
\* publish errors: the namespace is unwired, then IPAM DEL.
FailedAddNext(stage) ==
    CASE stage = "ipam" -> "done"
      [] stage = "wire" -> "release"
      [] stage = "publish" -> "unwire"

\* variant: the failed wiring of an already-networked sandbox is compensated
FailedRewireNext_Release == "release"

\* where an ADD for an already-networked sandbox goes when wiring it again
\* fails: it exits (non-zero) and the IPAM reservation stays in place
FailedRewireNext == "done"

Finish(p, code, res) ==
    /\ pc' = [pc EXCEPT ![p] = "done"]
    /\ loc' = [loc EXCEPT ![p].exit = code, ![p].result = res]

Snapshot == [weps |-> weps, ipam |-> ipam, links |-> links, profiles |-> profiles]

\* variant: the loop runs once more
MaxRetries_OneMore == 3 + 1

\* how often the write of the endpoint is tried again after a version conflict
MaxRetries == 3

\* the endpoint lists the network's profile
HasProfile(w, name) == \E i \in 1..Len(w.Profiles) : w.Profiles[i] = name

\* variant: the network's profile replaces the profiles the endpoint had
AppendProfile_Replace(w, name) ==
    IF HasProfile(w, name) THEN w ELSE [w EXCEPT !.Profiles = <<name>>]

\* generic CNI: the network's name is a profile of the endpoint
AppendProfile(w, name) ==
    IF HasProfile(w, name) THEN w ELSE [w EXCEPT !.Profiles = Append(@, name)]

\* ADD: validate, resolve the identity, look for an endpoint of the workload
AddBegin(p, c, conf, fault) ==
    /\ pc[p] = "idle"
    /\ LET args == CmdArgs(c, conf, NetnsOf(c.ContainerID))
           ids == GetIdentifiers(args, DetermineNodename(conf))
           epIDs == [ids EXCEPT !.WEPName = CalculateWorkloadEndpointName(ids)]
           found == ListByPod(weps, epIDs)
           l0 == NewLoc(args, conf, epIDs, CniArgsEnv(c))
       IN  /\ inv' = [inv EXCEPT ![p] = [cmd |-> "ADD", c |-> c, fault |-> fault]]
           /\ pre' = [pre EXCEPT ![p] = Snapshot]
           /\ IF ~ValidateNetworkName(conf.Name)
              THEN /\ pc' = [pc EXCEPT ![p] = "done"]
                   /\ loc' = [loc EXCEPT ![p] = [l0 EXCEPT !.exit = 1]]
              ELSE IF found = {}
              THEN /\ pc' = [pc EXCEPT ![p] = "ipam"]
                   /\ loc' = [loc EXCEPT ![p] = l0]
              ELSE LET w == CHOOSE x \in found : TRUE
                       r == CreateResultFromEndpoint(w)
                   IN  IF w.ContainerID # epIDs.ContainerID
                       THEN /\ pc' = [pc EXCEPT ![p] = "supersede"]
                            /\ loc' = [loc EXCEPT ![p] = [l0 EXCEPT !.endpoint = w]]
                       ELSE IF r.err
                       THEN /\ pc' = [pc EXCEPT ![p] = "done"]
                            /\ loc' = [loc EXCEPT ![p] =
                                         [l0 EXCEPT !.endpoint = w, !.exit = 1]]
                       ELSE IF epIDs.Orchestrator = "k8s" /\ w.Endpoint = epIDs.Endpoint
                       THEN /\ pc' = [pc EXCEPT ![p] = "rewire"]
                            /\ loc' = [loc EXCEPT ![p] =
                                         [l0 EXCEPT !.endpoint = w, !.result = r]]
                       ELSE IF epIDs.Orchestrator = "cni" /\ ~HasProfile(w, conf.Name)
                       THEN /\ pc' = [pc EXCEPT ![p] = "publish"]
                            /\ loc' = [loc EXCEPT ![p] =
                                         [l0 EXCEPT !.endpoint = AppendProfile(w, conf.Name),
                                                    !.result = r]]
                       ELSE /\ pc' = [pc EXCEPT ![p] = "done"]
                            /\ loc' = [loc EXCEPT ![p] =
                                         [l0 EXCEPT !.endpoint = w, !.result = r,
                                                    !.exit = 0]]
    /\ UNCHANGED <<weps, ipam, links, results, profiles>>

\* ADD of a new sandbox of the pod: the endpoint of the old one is deleted ...
AddSupersedeDelete(p) ==
    /\ pc[p] = "supersede"
    /\ LET old == loc[p].endpoint
       IN  /\ weps' = Delete(weps, old.Namespace, old.Name, old.ContainerID)
           /\ results' = [results EXCEPT ![old.ContainerID] = NoResult]
    /\ pc' = [pc EXCEPT ![p] = "supersede_release"]
    /\ UNCHANGED <<ipam, links, inv, loc, pre, profiles>>

\* ... and its IPAM handle released, before the ADD proceeds as a first ADD
AddSupersedeRelease(p) ==
    /\ pc[p] = "supersede_release"
    /\ LET old == loc[p].endpoint
           r == CleanUpIPAM(loc[p].conf,
                            [loc[p].args EXCEPT !.ContainerID = old.ContainerID],
                            ipam, TRUE)
       IN  /\ ipam' = r.store
           /\ loc' = [loc EXCEPT ![p].endpoint = NewEndpoint]
    /\ pc' = [pc EXCEPT ![p] = "ipam"]
    /\ UNCHANGED <<weps, links, inv, pre, results, profiles>>

\* how many addresses of a family the annotation lists
CountFam(addrs, fam) == Cardinality({ i \in 1..Len(addrs) : addrs[i].fam = fam })

\* variant: any number of addresses of a family is accepted
OverrideIPAMResult_NoLimit(addrs) ==
    [IPs |-> [i \in 1..Len(addrs) |->
                IF addrs[i].fam = 4
                THEN [Version |-> "4",
                      Address |-> [IP |-> addrs[i], Mask |-> CIDRMask(32, 32)]]
                ELSE [Version |-> "6",
                      Address |-> [IP |-> addrs[i], Mask |-> CIDRMask(128, 128)]]],
     err |-> FALSE]

\* the Result made from the addresses of the ipAddrsNoIpam annotation: more than
\* one IPv4 or more than one IPv6 address is an error, otherwise each address is
\* taken literally, as a /32 or a /128
OverrideIPAMResult(addrs) ==
    IF CountFam(addrs, 4) > 1 \/ CountFam(addrs, 6) > 1
    THEN [IPs |-> <<>>, err |-> TRUE]
    ELSE [IPs |-> [i \in 1..Len(addrs) |->
                     IF addrs[i].fam = 4
                     THEN [Version |-> "4",
                           Address |-> [IP |-> addrs[i], Mask |-> CIDRMask(32, 32)]]
                     ELSE [Version |-> "6",
                           Address |-> [IP |-> addrs[i], Mask |-> CIDRMask(128, 128)]]],
          err |-> FALSE]

\* the IPAM result: one IPv4 address of the pool, under the pool's mask
IpamResult(addr) ==
    [IPs |-> <<[Version |-> "4",
                Address |-> [IP |-> IPv4(addr), Mask |-> CIDRMask(SubnetBits, 32)]]>>,
     err |-> FALSE]

\* ADD: the delegate allocates, unless the pod's annotation gives the addresses;
\* the endpoint object is filled from the Result
AddIPAM(p) ==
    /\ pc[p] = "ipam"
    /\ LET l == loc[p]
           cniArgs == AddIgnoreUnknownArgs(l.CNI_ARGS)
           addrs == IF l.epIDs.Orchestrator = "k8s" THEN inv[p].c.ipAddrsNoIpam ELSE <<>>
           ep == [NewEndpoint EXCEPT
                    !.Name = l.epIDs.WEPName, !.Namespace = l.epIDs.Namespace,
                    !.Pod = l.epIDs.Pod, !.Node = l.epIDs.Node,
                    !.Endpoint = l.epIDs.Endpoint,
                    !.ContainerID = l.epIDs.ContainerID,
                    !.Orchestrator = l.epIDs.Orchestrator,
                    !.Profiles = IF l.epIDs.Orchestrator = "cni"
                                 THEN <<l.conf.Name>> ELSE <<>>]
       IN  IF addrs # <<>>
           THEN LET r == OverrideIPAMResult(addrs)
                    pop == PopulateEndpointNets(ep, r)
                IN  /\ ipam' = ipam
                    /\ IF r.err \/ pop.err
                       THEN /\ pc' = [pc EXCEPT ![p] = FailedAddNext("ipam")]
                            /\ loc' = [loc EXCEPT ![p].exit = 1, ![p].CNI_ARGS = cniArgs,
                                                  ![p].ipamFailed = TRUE]
                       ELSE /\ pc' = [pc EXCEPT ![p] = "wire"]
                            /\ loc' = [loc EXCEPT ![p].endpoint = pop.wep,
                                                  ![p].result = pop.result,
                                                  ![p].CNI_ARGS = cniArgs]
           ELSE IF inv[p].fault = "ipam" \/ FreeAddrs(ipam) = {}
           THEN /\ pc' = [pc EXCEPT ![p] = FailedAddNext("ipam")]
                /\ loc' = [loc EXCEPT ![p].exit = 1, ![p].CNI_ARGS = cniArgs,
                                      ![p].ipamFailed = TRUE]
                /\ ipam' = ipam
           ELSE \E addr \in FreeAddrs(ipam) :
                  LET pop == PopulateEndpointNets(ep, IpamResult(addr))
                  IN  /\ ipam' = ExecAdd(l.args.StdinData, l.args.ContainerID, ipam, addr)
                      /\ loc' = [loc EXCEPT ![p].endpoint = pop.wep,
                                            ![p].result = pop.result,
                                            ![p].CNI_ARGS = cniArgs,
                                            ![p].ipamAdd = @ + 1,
                                            ![p].exit = IF pop.err THEN 1 ELSE -1]
                      /\ pc' = [pc EXCEPT ![p] = IF pop.err THEN "release" ELSE "wire"]
    /\ UNCHANGED <<weps, links, inv, pre, results, profiles>>

\* ADD: the veth pair; a failure goes to the compensation
AddWire(p) ==
    /\ pc[p] = "wire"
    /\ LET l == loc[p]
           name == HostVethName(l.epIDs)
           r == DoNetworking(l.args, name, links, inv[p].fault # "wire")
       IN  IF r.err
           THEN /\ pc' = [pc EXCEPT ![p] = FailedAddNext("wire")]
                /\ loc' = [loc EXCEPT ![p].exit = 1, ![p].wireErr = TRUE]
                /\ links' = links
           ELSE /\ pc' = [pc EXCEPT ![p] = "publish"]
                /\ loc' = [loc EXCEPT ![p].endpoint.InterfaceName = name,
                                      ![p].didWire = TRUE]
                /\ links' = r.links
    /\ UNCHANGED <<weps, ipam, inv, pre, results, profiles>>

\* variant: the profile is named "default" whatever the network
DefaultProfile_FixedName(name) ==
    [Name |-> "default", Labels |-> {name}, Egress |-> "Allow",
     Ingress |-> "Allow from has(" \o name \o ")"]

\* the profile of a network: its label, egress allowed, ingress allowed from the
\* endpoints that have the label
DefaultProfile(name) ==
    [Name |-> name, Labels |-> {name}, Egress |-> "Allow",
     Ingress |-> "Allow from has(" \o name \o ")"]

\* EnsureDefaultProfile (section 4.5): the profile is created when there is none
\* of its name, and left alone when there is one
EnsureDefaultProfile(store, network) ==
    IF \E q \in store : q.Name = network
    THEN store
    ELSE store \cup {DefaultProfile(network)}

\* ADD: the endpoint is written and, in the generic CNI mode, the profile of the
\* network ensured; a version conflict is tried again after a new read,
\* MaxRetries times; any other failure, and the last conflict, unwires and
\* releases
AddPublish(p) ==
    /\ pc[p] = "publish"
    /\ LET l == loc[p]
           r == IF inv[p].fault = "publish"
                THEN [err |-> TRUE, conflict |-> FALSE, store |-> weps]
                ELSE CreateOrUpdate(weps, l.endpoint, FreshRV)
       IN  IF r.err /\ r.conflict /\ l.retries < MaxRetries
           THEN /\ pc' = [pc EXCEPT ![p] = "reread"]
                /\ loc' = [loc EXCEPT ![p].retries = @ + 1, ![p].conflicts = @ + 1]
                /\ UNCHANGED <<weps, results, profiles>>
           ELSE IF r.err
           THEN /\ pc' = [pc EXCEPT ![p] = FailedAddNext("publish")]
                /\ loc' = [loc EXCEPT ![p].exit = 1, ![p].publishErr = TRUE,
                                      ![p].conflicts = IF r.conflict THEN @ + 1 ELSE @]
                /\ UNCHANGED <<weps, results, profiles>>
           ELSE /\ pc' = [pc EXCEPT ![p] = "done"]
                /\ loc' = [loc EXCEPT ![p].exit = 0, ![p].wrote = TRUE]
                /\ weps' = r.store
                /\ results' = [results EXCEPT ![l.args.ContainerID] = l.result]
                /\ profiles' = IF l.epIDs.Orchestrator = "cni"
                               THEN EnsureDefaultProfile(profiles, l.conf.Name)
                               ELSE profiles
    /\ UNCHANGED <<ipam, links, inv, pre>>

\* ADD, after a conflict: the endpoint is read again and the change made on the
\* copy just read; an endpoint that is gone is a failure of the publish
AddReread(p) ==
    /\ pc[p] = "reread"
    /\ LET l == loc[p]
           w == GetEndpoint(weps, l.epIDs.Namespace, l.epIDs.WEPName)
       IN  IF w = NoEndpoint
           THEN /\ pc' = [pc EXCEPT ![p] = FailedAddNext("publish")]
                /\ loc' = [loc EXCEPT ![p].exit = 1, ![p].publishErr = TRUE]
           ELSE /\ pc' = [pc EXCEPT ![p] = "publish"]
                /\ loc' = [loc EXCEPT ![p].endpoint = AppendProfile(w, l.conf.Name)]
    /\ UNCHANGED <<weps, ipam, links, inv, pre, results, profiles>>

\* another client of the datastore writes an endpoint: its version changes
OtherWriter ==
    /\ \E w \in weps :
         weps' = (weps \ {w}) \cup {[w EXCEPT !.ResourceVersion = FreshRV]}
    /\ UNCHANGED <<ipam, links, pc, inv, loc, pre, results, profiles>>

\* compensation: the interface this ADD created is removed
AddUnwire(p) ==
    /\ pc[p] = "unwire"
    /\ links' = CleanUpNamespace(loc[p].args, links, TRUE).links
    /\ pc' = [pc EXCEPT ![p] = "release"]
    /\ UNCHANGED <<weps, ipam, inv, loc, pre, results, profiles>>

\* compensation: the delegate is run in DEL mode with the same stdin
AddRelease(p) ==
    /\ pc[p] = "release"
    /\ LET l == loc[p]
           r == ReleaseIPAllocation(l.args, l.conf.IPAM.Type, l.args.StdinData, ipam,
                                    TRUE, TRUE)
       IN  /\ ipam' = r.store
           /\ loc' = [loc EXCEPT ![p].relCalls = IF r.invoked THEN @ + 1 ELSE @,
                                 ![p].exit = 1, ![p].result = NoResult]
    /\ pc' = [pc EXCEPT ![p] = "done"]
    /\ UNCHANGED <<weps, links, inv, pre, results, profiles>>

\* ADD for the sandbox the endpoint already names (Kubernetes): the namespace is
\* wired again; a failure is returned and nothing is compensated
AddRewire(p) ==
    /\ pc[p] = "rewire"
    /\ LET l == loc[p]
           r == DoNetworking(l.args, HostVethName(l.epIDs), links, inv[p].fault # "wire")
       IN  IF r.err
           THEN /\ pc' = [pc EXCEPT ![p] = FailedRewireNext]
                /\ loc' = [loc EXCEPT ![p].exit = 1, ![p].result = NoResult,
                                      ![p].wireErr = TRUE]
                /\ links' = links
           ELSE /\ Finish(p, 0, l.result)
                /\ links' = r.links
    /\ UNCHANGED <<weps, ipam, inv, pre, results, profiles>>

\* DEL: resolve the identity and look the endpoint up by its name; a DEL for a
\* sandbox the endpoint does not name returns at once
DelBegin(p, c, conf, kind) ==
    /\ pc[p] = "idle"
    /\ LET netns == CASE kind \in {"ok", "release"} -> NetnsOf(c.ContainerID)
                      [] kind = "nopath" -> NoPath
                      [] OTHER -> ""
           args == CmdArgs(c, conf, netns)
           ids == GetIdentifiers(args, DetermineNodename(conf))
           epIDs == [ids EXCEPT !.WEPName = CalculateWorkloadEndpointName(ids)]
           wep == GetEndpoint(weps, epIDs.Namespace, epIDs.WEPName)
           l0 == NewLoc(args, conf, epIDs, CniArgsEnv(c))
       IN  /\ inv' = [inv EXCEPT ![p] = [cmd |-> "DEL", c |-> c, fault |-> kind]]
           /\ pre' = [pre EXCEPT ![p] = Snapshot]
           /\ IF ~ValidateNetworkName(conf.Name)
              THEN /\ pc' = [pc EXCEPT ![p] = "done"]
                   /\ loc' = [loc EXCEPT ![p] = [l0 EXCEPT !.exit = 1]]
              ELSE IF wep = NoEndpoint
              THEN /\ pc' = [pc EXCEPT ![p] = "del_unwire"]
                   /\ loc' = [loc EXCEPT ![p] = l0]
              ELSE IF wep.ContainerID # epIDs.ContainerID
              THEN /\ pc' = [pc EXCEPT ![p] = "done"]
                   /\ loc' = [loc EXCEPT ![p] = [l0 EXCEPT !.endpoint = wep, !.exit = 0]]
              ELSE /\ pc' = [pc EXCEPT ![p] = "del_unwire"]
                   /\ loc' = [loc EXCEPT ![p] = [l0 EXCEPT !.endpoint = wep]]
    /\ UNCHANGED <<weps, ipam, links, results, profiles>>

\* DEL: the interface is removed from the namespace, when there is one
DelUnwire(p) ==
    /\ pc[p] = "del_unwire"
    /\ LET r == CleanUpNamespace(loc[p].args, links, TRUE)
       IN  IF r.err
           THEN /\ Finish(p, 1, NoResult)
                /\ links' = links
           ELSE /\ pc' = [pc EXCEPT ![p] = "del_release"]
                /\ links' = r.links
                /\ loc' = [loc EXCEPT ![p].unwound = TRUE]
    /\ UNCHANGED <<weps, ipam, inv, pre, results, profiles>>

\* variant: a release that fails ends the DEL
DelReleasedNext_Fatal(ipamErr) == IF ipamErr THEN "done" ELSE "del_delete"

\* DEL contract (section 4.1): where a DEL goes after the IPAM release; a
\* failure of the release is logged and the endpoint is deleted all the same
DelReleasedNext(ipamErr) == "del_delete"

\* DEL: the delegate releases the container's addresses
DelRelease(p) ==
    /\ pc[p] = "del_release"
    /\ LET r == CleanUpIPAM(loc[p].conf, loc[p].args, ipam, inv[p].fault # "release")
           next == DelReleasedNext(r.err)
       IN  /\ ipam' = r.store
           /\ loc' = [loc EXCEPT ![p].args.StdinData = r.StdinData,
                                 ![p].released = TRUE,
                                 ![p].ipamErr = r.err,
                                 ![p].exit = IF next = "done" THEN 1 ELSE @]
           /\ pc' = [pc EXCEPT ![p] = next]
    /\ UNCHANGED <<weps, links, inv, pre, results, profiles>>

\* DEL: the endpoint is deleted, if it still names this sandbox
DelDelete(p) ==
    /\ pc[p] = "del_delete"
    /\ LET l == loc[p]
       IN  /\ weps' = Delete(weps, l.epIDs.Namespace, l.epIDs.WEPName, l.args.ContainerID)
           /\ results' = [results EXCEPT ![l.args.ContainerID] = NoResult]
    /\ Finish(p, 0, NoResult)
    /\ UNCHANGED <<ipam, links, inv, pre, profiles>>

\* the process exits
Exit(p) ==
    /\ pc[p] = "done"
    /\ pc' = [pc EXCEPT ![p] = "idle"]
    /\ inv' = [inv EXCEPT ![p] = NoInv]
    /\ loc' = [loc EXCEPT ![p] = NoLoc]
    /\ pre' = [pre EXCEPT ![p] = NoPre]
    /\ UNCHANGED <<weps, ipam, links, results, profiles>>

\* the runtime kills the process between two steps (its own timeout): the
\* process is gone, what it has done so far stays
Kill(p) ==
    /\ pc[p] \notin {"idle", "done"}
    /\ pc' = [pc EXCEPT ![p] = "idle"]
    /\ inv' = [inv EXCEPT ![p] = NoInv]
    /\ loc' = [loc EXCEPT ![p] = NoLoc]
    /\ pre' = [pre EXCEPT ![p] = NoPre]
    /\ UNCHANGED <<weps, ipam, links, results, profiles>>

-----------------------------------------------------------------------------
(* The runtime runs one invocation at a time (the test suites' scheduling) *)

Next ==
    \/ \E c \in Containers, conf \in NetConfs, fault \in AddFaults :
          AddBegin(1, c, conf, fault)
    \/ AddSupersedeDelete(1)
    \/ AddSupersedeRelease(1)
    \/ AddIPAM(1)
    \/ AddWire(1)
    \/ AddPublish(1)
    \/ AddUnwire(1)
    \/ AddRelease(1)
    \/ AddRewire(1)
    \/ \E c \in Containers, conf \in NetConfs, kind \in NetnsKinds :
          DelBegin(1, c, conf, kind)
    \/ DelUnwire(1)
    \/ DelRelease(1)
    \/ DelDelete(1)
    \/ Exit(1)

Spec == Init /\ [][Next]_vars

(* ... and may kill the invocation between any two of its steps.  The two
   sandboxes of one pod are enough to leave every kind of remains behind. *)

CrashContainers == { c \in Containers : c.K8S_POD_NAME = "mypod" }

\* the steps of a process after it has begun
Step(p) ==
    \/ AddSupersedeDelete(p)
    \/ AddSupersedeRelease(p)
    \/ AddIPAM(p)
    \/ AddWire(p)
    \/ AddPublish(p)
    \/ AddUnwire(p)
    \/ AddRelease(p)
    \/ AddRewire(p)
    \/ DelUnwire(p)
    \/ DelRelease(p)
    \/ DelDelete(p)
    \/ Exit(p)

NextCrash ==
    \/ \E c \in CrashContainers, conf \in NetConfs, fault \in AddFaults :
          AddBegin(1, c, conf, fault)
    \/ \E c \in CrashContainers, conf \in NetConfs, kind \in NetnsKinds :
          DelBegin(1, c, conf, kind)
    \/ Step(1)
    \/ Kill(1)

SpecCrash == Init /\ [][NextCrash]_vars

(* Two invocations at a time for the two sandboxes of one pod, their steps
   interleaved: the runtime runs the invocations for one sandbox one after the
   other, those for X as process 1 and those for Y as process 2.  The
   environment injects no failure. *)

SandboxOf(p) == IF p = 1 THEN "container-id-00X" ELSE "container-id-00Y"

NextConc ==
    \/ \E p \in Procs, c \in CrashContainers, conf \in NetConfs :
          c.ContainerID = SandboxOf(p) /\ AddBegin(p, c, conf, "none")
    \/ \E p \in Procs, c \in CrashContainers, conf \in NetConfs :
          c.ContainerID = SandboxOf(p) /\ DelBegin(p, c, conf, "ok")
    \/ \E p \in Procs : Step(p)

SpecConc == Init /\ [][NextConc]_vars

(* One invocation at a time for a container of a generic CNI runtime, on one of
   two networks, while other clients write to the datastore.  The steps of a
   process are taken sooner or later; nothing is assumed of the other writers. *)

RetryContainers == { c \in Containers : c.K8S_POD_NAME = "" }

RetryNetConfs ==
    NetConfs \cup { [Name |-> "net2", Nodename |-> "", Hostname |-> "",
                     IPAM |-> [Type |-> "calico-ipam", Subnet |-> ""]] }

StepRetry(p) ==
    \/ AddIPAM(p)
    \/ AddWire(p)
    \/ AddPublish(p)
    \/ AddReread(p)
    \/ AddUnwire(p)
    \/ AddRelease(p)
    \/ DelUnwire(p)
    \/ DelRelease(p)
    \/ DelDelete(p)
    \/ Exit(p)

NextRetry ==
    \/ \E c \in RetryContainers, conf \in RetryNetConfs, fault \in AddFaults :
          AddBegin(1, c, conf, fault)
    \/ \E c \in RetryContainers, conf \in RetryNetConfs : DelBegin(1, c, conf, "ok")
    \/ StepRetry(1)
    \/ OtherWriter

SpecRetry == Init /\ [][NextRetry]_vars /\ WF_vars(StepRetry(1))

(* One invocation at a time for a container of a generic CNI runtime, with a
   NetConf that may name the node; between the invocations the helpers of
   utils are called on inputs of their own. *)

NodeNetConfs ==
    { [Name |-> "net1", Nodename |-> n, Hostname |-> h,
       IPAM |-> [Type |-> "calico-ipam", Subnet |-> ""]] :
        n \in {"", "namedNodename"}, h \in {"", "namedHostname"} }

NodenameFiles ==
    { File("absent", ""), File("unreadable", "node-f"), File("ok", ""), File("ok", "node-f") }

\* a call of a helper, made while no container is networked: inv keeps what it
\* was given, loc what it returned
CanCall(p) ==
    pc[p] = "idle" /\ weps = {} /\ ipam = {} /\ links = {} /\ profiles = {}
CallOf(fn, in) == [cmd |-> "CALL", fn |-> fn, in |-> in]
Returned(out) == [exit |-> 0, out |-> out]

CallDetermineNodename(p) ==
    /\ CanCall(p)
    /\ \E conf \in NodeNetConfs, hostname \in {OSHostname}, file \in NodenameFiles :
         /\ inv' = [inv EXCEPT ![p] =
                      CallOf("DetermineNodename",
                             [conf |-> conf, hostname |-> hostname, file |-> file])]
         /\ loc' = [loc EXCEPT ![p] = Returned(DetermineNodenameOn(conf, hostname, file))]
    /\ pc' = [pc EXCEPT ![p] = "done"]
    /\ UNCHANGED <<weps, ipam, links, pre, results, profiles>>

\* the CmdArgs GetIdentifiers is called on
IdentifierArgs ==
    { [ContainerID |-> cid, Netns |-> NetnsOf(cid), IfName |-> ifname,
       Args |-> [K8S_POD_NAMESPACE |-> ns, K8S_POD_NAME |-> pod, CNI_TEST_NAMESPACE |-> t],
       StdinData |-> conf] :
        cid \in {"abc123", "container-id-00X"}, ifname \in {"eth0", "eth1"},
        ns \in {"", "test"}, pod \in {"", "mypod"}, t \in {"", "testns"},
        conf \in NetConfs }

CallGetIdentifiers(p) ==
    /\ CanCall(p)
    /\ \E args \in IdentifierArgs, nodename \in {OSHostname, "namedNodename"} :
         /\ inv' = [inv EXCEPT ![p] =
                      CallOf("GetIdentifiers", [args |-> args, nodename |-> nodename])]
         /\ loc' = [loc EXCEPT ![p] = Returned(GetIdentifiers(args, nodename))]
    /\ pc' = [pc EXCEPT ![p] = "done"]
    /\ UNCHANGED <<weps, ipam, links, pre, results, profiles>>

\* network names: those of the test suites, and names with a character the
\* expression leaves out
NetworkNames ==
    { "", "net1", "net2", "calico-uts", "my_net.0", "NET-A", "-", ".", "_",
      "net 1", " net1", "net1\n", "net/1", "net:1", "net!", "n\"1", "net\\1", "net+1",
      "net@home", "a,b", "~", "(net)", "net*", "n=1", "café" }

CallValidateNetworkName(p) ==
    /\ CanCall(p)
    /\ \E name \in NetworkNames :
         /\ inv' = [inv EXCEPT ![p] = CallOf("ValidateNetworkName", [name |-> name])]
         /\ loc' = [loc EXCEPT ![p] = Returned([err |-> ~ValidateNetworkName(name)])]
    /\ pc' = [pc EXCEPT ![p] = "done"]
    /\ UNCHANGED <<weps, ipam, links, pre, results, profiles>>

\* network configurations with the IPAM types and subnets a DEL may carry
IpamNetConfs ==
    { [Name |-> name, Nodename |-> "", Hostname |-> h,
       IPAM |-> [Type |-> t, Subnet |-> s]] :
        name \in {"net1", "net2"}, h \in {"", "namedHostname"},
        t \in {"host-local", "calico-ipam", "HOST-LOCAL"},
        s \in {"usePodCidr", "usepodcidr", "USEPODCIDR", "10.0.0.0/8", "0.0.0.0/0", ""} }

CallCleanUpIPAM(p) ==
    /\ CanCall(p)
    /\ \E c \in RetryContainers, conf \in IpamNetConfs, delegateOK \in BOOLEAN :
         LET args == CmdArgs(c, conf, NetnsOf(c.ContainerID))
         IN  /\ inv' = [inv EXCEPT ![p] =
                          CallOf("CleanUpIPAM",
                                 [conf |-> conf, args |-> args, delegateOK |-> delegateOK])]
             /\ loc' = [loc EXCEPT ![p] = Returned(CleanUpIPAM(conf, args, ipam, delegateOK))]
    /\ pc' = [pc EXCEPT ![p] = "done"]
    /\ UNCHANGED <<weps, ipam, links, pre, results, profiles>>

\* endpoints CreateOrUpdate is given: of two containers, each never read
\* (no ResourceVersion) or read at version 1 or 2, with one or two profiles
GivenEndpoints ==
    { [NewEndpoint EXCEPT !.Name = "host1-cni-" \o cid \o "-eth0", !.Namespace = "default",
                          !.Node = "host1", !.Endpoint = "eth0", !.ContainerID = cid,
                          !.Orchestrator = "cni", !.Profiles = profs,
                          !.ResourceVersion = rv] :
        cid \in {"abc123", "run1"}, profs \in {<<"net1">>, <<"net1", "net2">>},
        rv \in 0..2 }

\* what the datastore holds then: nothing, or one endpoint that was written
StoredEndpoints == {{}} \cup { {w} : w \in { g \in GivenEndpoints : g.ResourceVersion # 0 } }

CallCreateOrUpdate(p) ==
    /\ CanCall(p)
    /\ \E store \in StoredEndpoints, wep \in GivenEndpoints :
         /\ inv' = [inv EXCEPT ![p] =
                      CallOf("CreateOrUpdate", [store |-> store, wep |-> wep, rv |-> 3])]
         /\ loc' = [loc EXCEPT ![p] = Returned(CreateOrUpdate(store, wep, 3))]
    /\ pc' = [pc EXCEPT ![p] = "done"]
    /\ UNCHANGED <<weps, ipam, links, pre, results, profiles>>

\* the links of the host when CleanUpNamespace is called: none, one into the
\* namespace of abc123, and one more into that of run1
GivenLinks ==
    { {},
      {[host |-> "caliabc123", ns |-> NetnsOf("abc123"), ifname |-> "eth0"]},
      {[host |-> "caliabc123", ns |-> NetnsOf("abc123"), ifname |-> "eth0"],
       [host |-> "calirun1", ns |-> NetnsOf("run1"), ifname |-> "eth0"]} }

CallCleanUpNamespace(p) ==
    /\ CanCall(p)
    /\ \E c \in RetryContainers, conf \in NetConfs, ifname \in {"eth0", "eth1"},
          netns \in {"", NoPath, NetnsOf("abc123"), NetnsOf("run1")},
          lnks \in GivenLinks, delOK \in BOOLEAN :
         LET args == [CmdArgs(c, conf, netns) EXCEPT !.IfName = ifname]
         IN  /\ inv' = [inv EXCEPT ![p] =
                          CallOf("CleanUpNamespace",
                                 [args |-> args, links |-> lnks, delOK |-> delOK])]
             /\ loc' = [loc EXCEPT ![p] = Returned(CleanUpNamespace(args, lnks, delOK))]
    /\ pc' = [pc EXCEPT ![p] = "done"]
    /\ UNCHANGED <<weps, ipam, links, pre, results, profiles>>

\* what the delegate holds when a release is called for: nothing, the address
\* of abc123 on net1, and also one of run1
GivenReservations ==
    { {},
      {[handle |-> GetHandleID("net1", "abc123"), addr |-> 1]},
      {[handle |-> GetHandleID("net1", "abc123"), addr |-> 1],
       [handle |-> GetHandleID("net1", "run1"), addr |-> 2]} }

CallReleaseIPAllocation(p) ==
    /\ CanCall(p)
    /\ \E c \in RetryContainers, conf \in IpamNetConfs, store \in GivenReservations,
          ipamType \in {"calico-ipam", "host-local"},
          setenvOK \in BOOLEAN, delegateOK \in BOOLEAN :
         LET args == CmdArgs(c, conf, NetnsOf(c.ContainerID))
         IN  /\ inv' = [inv EXCEPT ![p] =
                          CallOf("ReleaseIPAllocation",
                                 [args |-> args, ipamType |-> ipamType,
                                  stdinData |-> conf, store |-> store,
                                  setenvOK |-> setenvOK, delegateOK |-> delegateOK])]
             /\ loc' = [loc EXCEPT ![p] =
                          Returned(ReleaseIPAllocation(args, ipamType, conf, store,
                                                       setenvOK, delegateOK))]
    /\ pc' = [pc EXCEPT ![p] = "done"]
    /\ UNCHANGED <<weps, ipam, links, pre, results, profiles>>

\* the CNI_ARGS of the environment before the first call
GivenCniArgs ==
    { "", "K8S_POD_NAMESPACE=test;K8S_POD_NAME=mypod", "FOO=BAR", "IgnoreUnknown=1",
      "CNI_TEST_NAMESPACE=testns;IgnoreUnknown=1" }

\* AddIgnoreUnknownArgs is called on the environment as the runtime set it
CallAddIgnoreUnknownArgs(p) ==
    /\ CanCall(p)
    /\ \E cniArgs \in GivenCniArgs :
         /\ inv' = [inv EXCEPT ![p] =
                      CallOf("AddIgnoreUnknownArgs", [CNI_ARGS |-> cniArgs, calls |-> 1])]
         /\ loc' = [loc EXCEPT ![p] = Returned(AddIgnoreUnknownArgs(cniArgs))]
    /\ pc' = [pc EXCEPT ![p] = "done"]
    /\ UNCHANGED <<weps, ipam, links, pre, results, profiles>>

\* and called again on the environment the call before has left
RecallAddIgnoreUnknownArgs(p) ==
    /\ pc[p] = "done" /\ inv[p].cmd = "CALL" /\ inv[p].fn = "AddIgnoreUnknownArgs"
    /\ inv[p].in.calls < MaxCalls
    /\ inv' = [inv EXCEPT ![p].in.calls = @ + 1]
    /\ loc' = [loc EXCEPT ![p] = Returned(AddIgnoreUnknownArgs(loc[p].out))]
    /\ UNCHANGED <<weps, ipam, links, pc, pre, results, profiles>>

\* NetConfs as CreateClient reads them: a network name, and the fields of the
\* variables in `filled` given (each a value of its own), the others empty
ClientConf(name, filled) ==
    LET f(var) == IF var \in filled THEN "netconf:" \o var ELSE ""
    IN  [Name |-> name,
         EtcdAuthority |-> f("ETCD_AUTHORITY"), EtcdEndpoints |-> f("ETCD_ENDPOINTS"),
         EtcdScheme |-> f("ETCD_SCHEME"), EtcdKeyFile |-> f("ETCD_KEY_FILE"),
         EtcdCertFile |-> f("ETCD_CERT_FILE"), EtcdCaCertFile |-> f("ETCD_CA_CERT_FILE"),
         DatastoreType |-> f("DATASTORE_TYPE"),
         Kubernetes |-> [Kubeconfig |-> f("KUBECONFIG"), K8sAPIRoot |-> f("K8S_API_ENDPOINT")],
         Policy |-> [K8sAuthToken |-> f("K8S_API_TOKEN")],
         AlphaFeatures |-> f("ALPHA_FEATURES")]

ClientEnvVarSet == { ClientEnvVars[i] : i \in 1..Len(ClientEnvVars) }

\* no field given, all of them, one, or all but one
FilledFields ==
    {{}, ClientEnvVarSet} \cup { {v} : v \in ClientEnvVarSet }
        \cup { ClientEnvVarSet \ {v} : v \in ClientEnvVarSet }

ClientConfs ==
    { ClientConf(name, filled) : name \in {"net1", "", "net 1"}, filled \in FilledFields }

\* the environment of the process: nothing set, everything set, or some
ClientEnvs ==
    { [v \in ClientEnvVarSet |-> ""],
      [v \in ClientEnvVarSet |-> "env:" \o v],
      [v \in ClientEnvVarSet |->
         IF v \in {"ETCD_ENDPOINTS", "DATASTORE_TYPE", "KUBECONFIG"} THEN "env:" \o v ELSE ""] }

CallCreateClient(p) ==
    /\ CanCall(p)
    /\ \E conf \in ClientConfs, env \in ClientEnvs,
          failAt \in {"none", "ETCD_SCHEME"}, loadOK \in BOOLEAN :
         /\ inv' = [inv EXCEPT ![p] =
                      CallOf("CreateClient", [conf |-> conf, env |-> env,
                                              failAt |-> failAt, loadOK |-> loadOK])]
         /\ loc' = [loc EXCEPT ![p] = Returned(CreateClient(conf, env, failAt, loadOK))]
    /\ pc' = [pc EXCEPT ![p] = "done"]
    /\ UNCHANGED <<weps, ipam, links, pre, results, profiles>>

\* entries of a Result: an address under the mask of its pool, with the Version
\* of its family and with the other one
ResultEntries ==
    { [Version |-> v, Address |-> [IP |-> ip, Mask |-> m]] :
        v \in {"4", "6"},
        ip \in {IPv4(1), IPv6(1)},
        m \in {CIDRMask(SubnetBits, 32)} } \cup
    { [Version |-> "6", Address |-> [IP |-> IPv6(2), Mask |-> CIDRMask(64, 128)]],
      [Version |-> "4", Address |-> [IP |-> IPv4(2), Mask |-> CIDRMask(32, 32)]] }

\* Results of no, one and two entries
GivenResults ==
    { [IPs |-> <<>>, err |-> FALSE] }
      \cup { [IPs |-> <<a>>, err |-> FALSE] : a \in ResultEntries }
      \cup { [IPs |-> <<a, b>>, err |-> FALSE] : a \in ResultEntries, b \in ResultEntries }

\* an endpoint with no address yet, and one that lists an address
FilledEndpoints ==
    { [NewEndpoint EXCEPT !.Name = "host1-cni-abc123-eth0", !.Namespace = "default",
                          !.ContainerID = "abc123", !.Orchestrator = "cni",
                          !.IPNetworks = nets] :
        nets \in {<<>>, <<[ip |-> IPv4(2), ones |-> 32]>>} }

CallPopulateEndpointNets(p) ==
    /\ CanCall(p)
    /\ \E wep \in FilledEndpoints, result \in GivenResults :
         /\ inv' = [inv EXCEPT ![p] =
                      CallOf("PopulateEndpointNets", [wep |-> wep, result |-> result])]
         /\ loc' = [loc EXCEPT ![p] = Returned(PopulateEndpointNets(wep, result))]
    /\ pc' = [pc EXCEPT ![p] = "done"]
    /\ UNCHANGED <<weps, ipam, links, pre, results, profiles>>

\* texts an endpoint may list: host routes of both families, a subnet, "<nil>"
\* and an IPv4 address with a prefix length of 128
StoredNets ==
    { [ip |-> IPv4(1), ones |-> 32], [ip |-> IPv6(1), ones |-> 128],
      [ip |-> IPv4(2), ones |-> SubnetBits], [ip |-> IPv4(1), ones |-> 128], NilNet }

\* endpoints that list one or two of them
ListedEndpoints ==
    { [NewEndpoint EXCEPT !.Name = "host1-cni-abc123-eth0", !.Namespace = "default",
                          !.ContainerID = "abc123", !.Orchestrator = "cni",
                          !.IPNetworks = nets] :
        nets \in { <<a>> : a \in StoredNets } \cup
                 { <<a, b>> : a \in StoredNets, b \in StoredNets } }

CallCreateResultFromEndpoint(p) ==
    /\ CanCall(p)
    /\ \E wep \in ListedEndpoints :
         /\ inv' = [inv EXCEPT ![p] = CallOf("CreateResultFromEndpoint", wep)]
         /\ loc' = [loc EXCEPT ![p] = Returned(CreateResultFromEndpoint(wep))]
    /\ pc' = [pc EXCEPT ![p] = "done"]
    /\ UNCHANGED <<weps, ipam, links, pre, results, profiles>>

\* CreateResultFromEndpoint on an endpoint that PopulateEndpointNets has just
\* filled from a Result
CallCreateResultFromPopulated(p) ==
    /\ CanCall(p)
    /\ \E wep \in {w \in FilledEndpoints : w.IPNetworks = <<>>}, result \in GivenResults :
         /\ inv' = [inv EXCEPT ![p] =
                      CallOf("CreateResultFromPopulated", [wep |-> wep, result |-> result])]
         /\ loc' = [loc EXCEPT ![p] =
                      Returned(LET filled == PopulateEndpointNets(wep, result)
                               IN  IF filled.err THEN [IPs |-> <<>>, err |-> TRUE]
                                   ELSE CreateResultFromEndpoint(filled.wep))]
    /\ pc' = [pc EXCEPT ![p] = "done"]
    /\ UNCHANGED <<weps, ipam, links, pre, results, profiles>>

\* network names ValidateNetworkName accepts, with and without a dot
HandleNetworks == { n \in NetworkNames \cup {"a", "a.b"} : ValidateNetworkName(n) }

\* ContainerIDs as the runtime passes them (CNI_CONTAINERID is not validated)
HandleContainerIDs == { "abc123", "container-id-00X", "c", "b.c" }

\* the handles of two invocations
CallGetHandleID(p) ==
    /\ CanCall(p)
    /\ \E n1 \in HandleNetworks, n2 \in HandleNetworks,
          c1 \in HandleContainerIDs, c2 \in HandleContainerIDs :
         /\ inv' = [inv EXCEPT ![p] =
                      CallOf("GetHandleID",
                             [first |-> [netName |-> n1, containerID |-> c1],
                              second |-> [netName |-> n2, containerID |-> c2]])]
         /\ loc' = [loc EXCEPT ![p] =
                      Returned([first |-> GetHandleID(n1, c1),
                                second |-> GetHandleID(n2, c2)])]
    /\ pc' = [pc EXCEPT ![p] = "done"]
    /\ UNCHANGED <<weps, ipam, links, pre, results, profiles>>

StepFn(p) ==
    \/ AddIPAM(p)
    \/ AddWire(p)
    \/ AddPublish(p)
    \/ AddUnwire(p)
    \/ AddRelease(p)
    \/ DelUnwire(p)
    \/ DelRelease(p)
    \/ DelDelete(p)
    \/ Exit(p)

NextFn ==
    \/ \E c \in RetryContainers, conf \in NodeNetConfs, fault \in AddFaults :
          AddBegin(1, c, conf, fault)
    \/ \E c \in RetryContainers, conf \in NodeNetConfs, kind \in NetnsKinds :
          DelBegin(1, c, conf, kind)
    \/ StepFn(1)
    \/ CallDetermineNodename(1)
    \/ CallGetIdentifiers(1)
    \/ CallValidateNetworkName(1)
    \/ CallCleanUpIPAM(1)
    \/ CallCreateOrUpdate(1)
    \/ CallCleanUpNamespace(1)
    \/ CallReleaseIPAllocation(1)
    \/ CallAddIgnoreUnknownArgs(1)
    \/ RecallAddIgnoreUnknownArgs(1)
    \/ CallCreateClient(1)
    \/ CallPopulateEndpointNets(1)
    \/ CallCreateResultFromEndpoint(1)
    \/ CallCreateResultFromPopulated(1)
    \/ CallGetHandleID(1)

SpecFn == Init /\ [][NextFn]_vars

(* One invocation at a time, for the containers of ExtContainers *)

NextExt ==
    \/ \E c \in ExtContainers, conf \in NetConfs, fault \in AddFaults :
          AddBegin(1, c, conf, fault)
    \/ \E c \in ExtContainers, conf \in NetConfs : DelBegin(1, c, conf, "ok")
    \/ Step(1)

SpecExt == Init /\ [][NextExt]_vars

-----------------------------------------------------------------------------
(* One invocation at a time; the delegate of a DEL may fail to release *)

RelContainers == { c \in Containers : c.K8S_POD_NAME \in {"", "mypod"} }

\* a DEL in a usable namespace, its delegate succeeding or failing
RelKinds == {"ok", "release"}

NextRel ==
    \/ \E c \in RelContainers, conf \in NetConfs, fault \in AddFaults :
          AddBegin(1, c, conf, fault)
    \/ \E c \in RelContainers, conf \in NetConfs, kind \in RelKinds :
          DelBegin(1, c, conf, kind)
    \/ Step(1)

SpecRel == Init /\ [][NextRel]_vars

-----------------------------------------------------------------------------
(* One invocation at a time, for containers of the generic CNI mode whose
   ContainerIDs begin with the same eleven characters, and a pod that is given
   a second sandbox *)

VethContainers ==
    { Container("container-id-00X", "", "", "eth0", <<>>),
      Container("container-id-00Y", "", "", "eth0", <<>>),
      Container("container-id-00Z", "test", "mypod-1", "eth0", <<>>),
      Container("abc123", "test", "mypod-1", "eth0", <<>>) }

\* an operator edits the rules of a profile
EditProfile ==
    /\ \E q \in profiles :
         /\ q.Egress = "Allow"
         /\ profiles' = (profiles \ {q}) \cup {[q EXCEPT !.Egress = "Deny"]}
    /\ UNCHANGED <<weps, ipam, links, pc, inv, loc, pre, results>>

NextVeth ==
    \/ \E c \in VethContainers, conf \in NetConfs, fault \in AddFaults :
          AddBegin(1, c, conf, fault)
    \/ \E c \in VethContainers, conf \in NetConfs : DelBegin(1, c, conf, "ok")
    \/ Step(1)
    \/ EditProfile

SpecVeth == Init /\ [][NextVeth]_vars

-----------------------------------------------------------------------------
(* Properties.  They read an invocation when it has finished (pc = "done"):
   inv is what it was given, pre the state it began in, loc what it did. *)

AddDone(p) == pc[p] = "done" /\ inv[p].cmd = "ADD"
DelDone(p) == pc[p] = "done" /\ inv[p].cmd = "DEL"

\* the ContainerID the runtime gave the invocation
Cid(p) == inv[p].c.ContainerID

\* the endpoints of the invocation's workload: of the pod under Kubernetes, of
\* the container otherwise
EndpointsOf(store, c) ==
    { w \in store :
        IF c.K8S_POD_NAME # ""
        THEN /\ w.Orchestrator = "k8s"
             /\ w.Namespace = c.K8S_POD_NAMESPACE /\ w.Pod = c.K8S_POD_NAME
        ELSE w.Orchestrator = "cni" /\ w.ContainerID = c.ContainerID }

\* the addresses reserved for sandbox cid on the network of p's configuration
Reserved(store, p, cid) == IPsByHandle(store, GetHandleID(loc[p].conf.Name, cid))

\* the endpoint lists exactly address a, as a host route
ListsOnly(w, a) == w.IPNetworks = <<[ip |-> IPv4(a), ones |-> 32]>>

\* C1: a DEL for a sandbox that the pod's endpoint does not name exits 0 and
\* changes neither the datastore nor the IPAM store: the endpoint of the newer
\* sandbox is still the pod's only endpoint and its handle still holds its
\* address.
C1_StaleDelLeavesEndpoint ==
    \A p \in Procs :
      DelDone(p) =>
        \A w \in EndpointsOf(pre[p].weps, inv[p].c) :
          w.ContainerID # Cid(p) =>
            /\ loc[p].exit = 0
            /\ weps = pre[p].weps
            /\ ipam = pre[p].ipam
            /\ EndpointsOf(weps, inv[p].c) = {w}
            /\ Reserved(ipam, p, w.ContainerID) # {}
            /\ Reserved(ipam, p, w.ContainerID) = Reserved(pre[p].ipam, p, w.ContainerID)

\* a DEL for sandbox X has finished while the pod's endpoint names sandbox Y
C1_Witness ==
    \E p \in Procs :
      /\ DelDone(p) /\ Cid(p) = "container-id-00X" /\ loc[p].exit = 0
      /\ \E w \in EndpointsOf(weps, inv[p].c) :
           w.ContainerID = "container-id-00Y" /\ Reserved(ipam, p, "container-id-00Y") # {}

\* C2: when an ADD for sandbox Y of a pod succeeds and the pod had an endpoint
\* of another sandbox X, the pod has exactly one endpoint afterwards, it names
\* Y, and nothing is reserved under X's handle.
C2_SupersedeLeavesOnlyNew ==
    \A p \in Procs :
      (AddDone(p) /\ loc[p].exit = 0) =>
        \A old \in EndpointsOf(pre[p].weps, inv[p].c) :
          old.ContainerID # Cid(p) =>
            /\ Cardinality(EndpointsOf(weps, inv[p].c)) = 1
            /\ \A w \in EndpointsOf(weps, inv[p].c) : w.ContainerID = Cid(p)
            /\ Reserved(ipam, p, old.ContainerID) = {}

\* ADD(Y) has succeeded for the pod whose endpoint named X
C2_Witness ==
    \E p \in Procs :
      /\ AddDone(p) /\ loc[p].exit = 0 /\ Cid(p) = "container-id-00Y"
      /\ \E old \in EndpointsOf(pre[p].weps, inv[p].c) : old.ContainerID = "container-id-00X"
      /\ Reserved(pre[p].ipam, p, "container-id-00X") # {}
      /\ \E w \in weps : w.ContainerID = "container-id-00Y"

NothingToDelete(store, res, lnks, p) ==
    /\ EndpointsOf(store, inv[p].c) = {}
    /\ Reserved(res, p, Cid(p)) = {}
    /\ ~LinkByName(lnks, loc[p].args.Netns, loc[p].args.IfName)

\* C6: a DEL for a workload that has no endpoint exits 0 whatever the netns it
\* is given (usable, not a path, empty); it writes no endpoint and reserves
\* nothing; it leaves a state in which nothing is left to delete, and a DEL
\* begun in such a state (a DEL after a DEL) changes nothing at all.
C6_DelWithoutEndpointIsIdempotent ==
    \A p \in Procs :
      (DelDone(p) /\ EndpointsOf(pre[p].weps, inv[p].c) = {}) =>
        /\ loc[p].exit = 0
        /\ weps = pre[p].weps
        /\ ipam \subseteq pre[p].ipam
        /\ NothingToDelete(weps, ipam, links, p)
        /\ NothingToDelete(pre[p].weps, pre[p].ipam, pre[p].links, p) =>
             (ipam = pre[p].ipam /\ links = pre[p].links)

\* a DEL given a netns that is not a path has finished before any ADD
C6_Witness ==
    \E p \in Procs :
      /\ DelDone(p) /\ loc[p].exit = 0 /\ loc[p].args.Netns = NoPath
      /\ pre[p].weps = {} /\ weps = {} /\ ipam = {}

C8_FailedPublishUnwinds ==
    \A p \in Procs :
      (AddDone(p) /\ loc[p].publishErr) =>
        /\ loc[p].didWire
        /\ loc[p].exit > 0
        /\ ~LinkByName(links, loc[p].args.Netns, loc[p].args.IfName)
        /\ loc[p].relCalls >= 1
        /\ Reserved(ipam, p, Cid(p)) = {}
        /\ ~loc[p].wrote
        /\ weps \subseteq pre[p].weps
        /\ \A w \in weps : w.ContainerID # Cid(p)

\* an ADD whose publish failed after it had wired the sandbox has finished
C8_Witness ==
    \E p \in Procs :
      /\ AddDone(p) /\ loc[p].publishErr /\ loc[p].didWire /\ loc[p].exit = 1
      /\ ~LinkByName(links, loc[p].args.Netns, loc[p].args.IfName)

\* C9: when the delegate fails during ADD, the ADD exits non-zero, no veth has
\* been created (the links are those the ADD began with), no endpoint has been
\* written, and the delegate has not been run in DEL mode for compensation.
C9_FailedIpamNeedsNoRollback ==
    \A p \in Procs :
      (AddDone(p) /\ loc[p].ipamFailed) =>
        /\ loc[p].exit > 0
        /\ ~loc[p].didWire
        /\ links = pre[p].links
        /\ ~loc[p].wrote
        /\ weps \subseteq pre[p].weps
        /\ \A w \in weps : w.ContainerID # Cid(p)
        /\ loc[p].relCalls = 0

\* an ADD whose delegate was made to fail has finished
C9_Witness ==
    \E p \in Procs :
      /\ AddDone(p) /\ loc[p].ipamFailed /\ inv[p].fault = "ipam"
      /\ loc[p].exit = 1 /\ loc[p].relCalls = 0

\* C10: an ADD for the sandbox the endpoint already names, run while wiring
\* cannot succeed, leaves the datastore as it was and releases nothing: the
\* handle still holds exactly the address the endpoint lists.
C10_FailedSecondAddLeavesDatastore ==
    \A p \in Procs :
      (AddDone(p) /\ inv[p].fault = "wire") =>
        \A w \in EndpointsOf(pre[p].weps, inv[p].c) :
          w.ContainerID = Cid(p) =>
            /\ weps = pre[p].weps
            /\ loc[p].relCalls = 0
            /\ \E a \in Pool : ListsOnly(w, a) /\ Reserved(ipam, p, Cid(p)) = {a}

\* the second ADD of a networked sandbox has failed at the wiring
C10_Witness ==
    \E p \in Procs :
      /\ AddDone(p) /\ inv[p].fault = "wire" /\ loc[p].wireErr /\ loc[p].exit = 1
      /\ \E w \in EndpointsOf(weps, inv[p].c) : w.ContainerID = Cid(p)

\* the addresses reserved for sandbox cid, on any network
ReservedFor(store, cid) ==
    UNION { IPsByHandle(store, GetHandleID(conf.Name, cid)) : conf \in NetConfs }

\* C11: in every state, also between the steps of a command and after a kill,
\* an endpoint whose address came from the delegate has a reservation under
\* the handle of its ContainerID (the endpoint does not outlive its allocation).
C11_EndpointWithinAllocation ==
    \A w \in weps : ReservedFor(ipam, w.ContainerID) # {}

\* C13: once a DEL has run the delegate's release, the endpoint naming its
\* ContainerID is no longer in the datastore (the release comes after the
\* delete).
C13_ReleaseOnlyAfterDelete ==
    \A p \in Procs :
      (inv[p].cmd = "DEL" /\ pc[p] # "idle" /\ loc[p].released) =>
        \A w \in weps : w.ContainerID # Cid(p)


\* the interface of p's sandbox is in its network namespace
Wired(lnks, p) == LinkByName(lnks, loc[p].args.Netns, loc[p].args.IfName)

WEPNameOf(c, conf) ==
    CalculateWorkloadEndpointName(
        GetIdentifiers(CmdArgs(c, conf, NetnsOf(c.ContainerID)), DetermineNodename(conf)))

\* C18: the endpoint names of two pods of one namespace differ, also when one
\* pod's name is a prefix of the other's; an ADD takes only an endpoint of its
\* own pod for an existing one; and a successful ADD leaves the endpoints of the
\* other pods as they were, next to its own pod's endpoint, which names its own
\* ContainerID.
C18_PodsDoNotShareEndpoints ==
    /\ \A c1, c2 \in Containers, conf \in NetConfs :
         (/\ c1.K8S_POD_NAME # "" /\ c2.K8S_POD_NAME # ""
          /\ c1.K8S_POD_NAMESPACE = c2.K8S_POD_NAMESPACE
          /\ c1.K8S_POD_NAME # c2.K8S_POD_NAME) =>
            WEPNameOf(c1, conf) # WEPNameOf(c2, conf)
    /\ \A p \in Procs :
         (inv[p].cmd = "ADD" /\ inv[p].c.K8S_POD_NAME # "" /\ loc[p].endpoint.Name # "") =>
            /\ loc[p].endpoint.Pod = inv[p].c.K8S_POD_NAME
            /\ loc[p].endpoint.Namespace = inv[p].c.K8S_POD_NAMESPACE
    /\ \A p \in Procs :
         (AddDone(p) /\ loc[p].exit = 0 /\ inv[p].c.K8S_POD_NAME # "") =>
            \A w \in pre[p].weps \ EndpointsOf(pre[p].weps, inv[p].c) :
              /\ w \in weps
              /\ w.ContainerID # Cid(p)
              /\ \E own \in EndpointsOf(weps, inv[p].c) :
                   /\ own.ContainerID = Cid(p)
                   /\ own.Name # w.Name
                   /\ EndpointsOf(weps, inv[p].c) = {own}

\* the ADD for pod "mypod" has succeeded while pod "mypod-1" had its endpoint
C18_Witness ==
    \E p \in Procs :
      /\ AddDone(p) /\ loc[p].exit = 0 /\ loc[p].wrote
      /\ inv[p].c.K8S_POD_NAME = "mypod"
      /\ \E w \in pre[p].weps : w.Pod = "mypod-1" /\ w \in weps
      /\ \E own \in weps : own.Pod = "mypod" /\ own.ContainerID = Cid(p)
      /\ Cardinality({ w \in weps : w.Orchestrator = "k8s" }) = 2

\* C17: an ADD for the sandbox the pod's endpoint names, under another interface
\* name than the endpoint's, exits 0, wires nothing and leaves datastore, IPAM
\* store and links as they were: the pod's only endpoint is the stored one, with
\* its name, Endpoint and ContainerID, and the Result returned is the one made
\* from its IPNetworks.
C17_OtherInterfaceIsNoOp ==
    \A p \in Procs :
      AddDone(p) =>
        \A w \in EndpointsOf(pre[p].weps, inv[p].c) :
          (w.ContainerID = Cid(p) /\ w.Endpoint # inv[p].c.IfName) =>
            /\ loc[p].exit = 0
            /\ ~loc[p].didWire /\ ~loc[p].wrote
            /\ links = pre[p].links
            /\ weps = pre[p].weps
            /\ ipam = pre[p].ipam
            /\ EndpointsOf(weps, inv[p].c) = {w}
            /\ loc[p].result = CreateResultFromEndpoint(w)
            /\ loc[p].result.IPs = ResultIPsFrom(w.IPNetworks)

\* the ADD for sandbox X under "eth1" has ended; the endpoint, made under
\* "eth0", is there
C17_Witness ==
    \E p \in Procs :
      /\ AddDone(p) /\ Cid(p) = "container-id-00X" /\ inv[p].c.IfName = "eth1"
      /\ loc[p].exit = 0
      /\ \E w \in weps :
           /\ w \in pre[p].weps
           /\ w.ContainerID = "container-id-00X" /\ w.Endpoint = "eth0"
           /\ w.Name = "host1-k8s-mypod-eth0"

\* the only address of the invocation's annotation, and its host route
OnlyAddr(p) == inv[p].c.ipAddrsNoIpam[1]
HostRoute(a) == [ip |-> a, ones |-> IF a.fam = 4 THEN 32 ELSE 128]

\* C19: an ADD for a pod whose ipAddrsNoIpam annotation lists more than one
\* IPv4 or more than one IPv6 address fails, and afterwards the pod has no
\* endpoint; the datastore, the IPAM store and the links are as before.
C19_TooManyAddressesFail ==
    \A p \in Procs :
      (/\ AddDone(p)
       /\ \/ CountFam(inv[p].c.ipAddrsNoIpam, 4) > 1
          \/ CountFam(inv[p].c.ipAddrsNoIpam, 6) > 1) =>
        /\ loc[p].exit > 0
        /\ EndpointsOf(weps, inv[p].c) = {}
        /\ weps = pre[p].weps
        /\ ipam = pre[p].ipam
        /\ links = pre[p].links

\* the ADD for the pod that asks for 10.0.0.1 and 10.0.0.2 has failed
C19_Witness ==
    \E p \in Procs :
      /\ AddDone(p) /\ Cid(p) = "run2" /\ loc[p].exit = 1 /\ loc[p].ipamFailed
      /\ inv[p].c.ipAddrsNoIpam = <<IPv4(1), IPv4(2)>>
      /\ \A w \in weps : w.Pod # "run2"

\* C20: a successful ADD for a pod whose ipAddrsNoIpam annotation lists one
\* address has not run the delegate and nothing is reserved under its handle;
\* the Result holds exactly that address, under the mask /32 (IPv4) or /128
\* (IPv6), and the pod's endpoint lists exactly that address as a /32 or /128.
C20_SingleAddressBypassesIPAM ==
    \A p \in Procs :
      (AddDone(p) /\ loc[p].exit = 0 /\ Len(inv[p].c.ipAddrsNoIpam) = 1) =>
        /\ loc[p].ipamAdd = 0
        /\ ReservedFor(ipam, Cid(p)) = {}
        /\ ipam = pre[p].ipam
        /\ Len(loc[p].result.IPs) = 1
        /\ loc[p].result.IPs[1].Address.IP = OnlyAddr(p)
        /\ FormatIPNet(loc[p].result.IPs[1].Address) = HostRoute(OnlyAddr(p))
        /\ \E w \in weps :
             /\ EndpointsOf(weps, inv[p].c) = {w}
             /\ w.ContainerID = Cid(p)
             /\ w.IPNetworks = <<HostRoute(OnlyAddr(p))>>

\* the first ADD for the pod that asks for fd80::1 has succeeded
C20_Witness ==
    \E p \in Procs :
      /\ AddDone(p) /\ loc[p].exit = 0 /\ loc[p].wrote /\ Cid(p) = "run3"
      /\ inv[p].c.ipAddrsNoIpam = <<IPv6(1)>>
      /\ \E w \in weps : w.Pod = "run3" /\ w.IPNetworks = <<[ip |-> IPv6(1), ones |-> 128]>>

\* the reservations of store that are sandbox cid's, on any network: those
\* under a handle <network>.<ContainerID> (section 3)
HeldFor(store, cid) ==
    { r \in store : \E conf \in NetConfs : r.handle = conf.Name \o "." \o cid }

\* C14: when an ADD for sandbox X and an ADD for sandbox Y of one pod have run
\* at the same time and both have ended, the pod has at most one endpoint and
\* every reservation held is under the handle of the ContainerID that endpoint
\* names.
C14_ConcurrentAddsLeaveOneOwner ==
    \A p, q \in Procs :
      (/\ p # q /\ AddDone(p) /\ AddDone(q) /\ Cid(p) # Cid(q)
       /\ inv[p].c.K8S_POD_NAME = inv[q].c.K8S_POD_NAME
       /\ inv[p].c.K8S_POD_NAMESPACE = inv[q].c.K8S_POD_NAMESPACE) =>
        /\ Cardinality(EndpointsOf(weps, inv[p].c)) <= 1
        /\ \A r \in ipam :
             \E w \in EndpointsOf(weps, inv[p].c) : r \in HeldFor(ipam, w.ContainerID)

\* both ADDs ran the delegate and wired; the one for Y lost the race for the
\* endpoint, and X's endpoint and reservation are what is left
C14_Witness ==
    /\ AddDone(1) /\ AddDone(2)
    /\ loc[1].ipamAdd = 1 /\ loc[2].ipamAdd = 1
    /\ loc[1].wrote /\ loc[2].publishErr /\ loc[2].exit = 1
    /\ \E w \in weps : weps = {w} /\ w.ContainerID = "container-id-00X"
    /\ HeldFor(ipam, "container-id-00X") # {}
    /\ HeldFor(ipam, "container-id-00Y") = {}

\* C15: a step of a DEL for sandbox X removes from the datastore only an
\* endpoint that names X, and from the IPAM store only reservations under X's
\* handle, whatever an ADD for sandbox Y of the pod does in between.
C15_DelTouchesOnlyItsSandbox ==
    [][\A p \in Procs :
         (inv[p].cmd = "DEL" /\ pc'[p] # pc[p]) =>
            /\ \A w \in weps \ weps' : w.ContainerID = Cid(p)
            /\ \A r \in ipam \ ipam' : r \in HeldFor(ipam, Cid(p))]_vars

\* the DEL for X found X's endpoint and has ended after the ADD for Y replaced
\* it: Y's endpoint and Y's reservation are there
C15_Witness ==
    /\ DelDone(1) /\ loc[1].endpoint.ContainerID = "container-id-00X"
    /\ loc[1].released
    /\ pc[2] \in {"done", "idle"}
    /\ \E w \in weps : weps = {w} /\ w.ContainerID = "container-id-00Y"
    /\ HeldFor(ipam, "container-id-00Y") # {}

\* C16: an ADD tries the write of the endpoint again only after a version
\* conflict and a new read, at most 3 times; an ADD that ends on a conflict has
\* used its 3 retries, exits non-zero and has written nothing; and an ADD that
\* has reached the write ends, however often other clients write.
C16_BoundedRetries ==
    /\ [](\A p \in Procs :
            inv[p].cmd = "ADD" =>
              /\ loc[p].retries <= 3
              /\ loc[p].retries <= loc[p].conflicts
              /\ loc[p].conflicts <= loc[p].retries + 1
              /\ (pc[p] = "reread" => loc[p].retries >= 1)
              /\ (loc[p].conflicts > loc[p].retries =>
                    /\ loc[p].retries = 3
                    /\ loc[p].exit > 0
                    /\ ~loc[p].wrote))
    /\ \A p \in Procs : (pc[p] \in {"publish", "reread"}) ~> (pc[p] = "done")

\* an ADD has ended after four writes, each refused for the version
C16_Witness ==
    \E p \in Procs :
      /\ AddDone(p) /\ loc[p].retries = 3 /\ loc[p].conflicts = 4
      /\ loc[p].exit = 1 /\ loc[p].publishErr
      /\ \E w \in weps : w.ContainerID = Cid(p) /\ ~HasProfile(w, loc[p].conf.Name)

\* the endpoint but for its version
Unversioned(w) == [w EXCEPT !.ResourceVersion = 0]

\* C21: when an ADD for a container of a generic CNI runtime succeeds and the
\* container's endpoint did not list the network of this ADD, the endpoint is
\* the one it was with the network's name appended to its Profiles, it is the
\* container's only endpoint, the IPAM store is as it was, and the Result
\* returned is the one made from the endpoint, which is the Result of the ADD
\* before it.
C21_SecondAddAppendsProfile ==
    /\ [](\A p \in Procs :
            (AddDone(p) /\ loc[p].exit = 0 /\ inv[p].c.K8S_POD_NAME = "") =>
              \A w \in EndpointsOf(pre[p].weps, inv[p].c) :
                ~HasProfile(w, loc[p].conf.Name) =>
                  /\ \E n \in weps :
                       /\ EndpointsOf(weps, inv[p].c) = {n}
                       /\ n.Profiles = w.Profiles \o <<loc[p].conf.Name>>
                       /\ Unversioned(n) = Unversioned([w EXCEPT !.Profiles = n.Profiles])
                  /\ ipam = pre[p].ipam
                  /\ loc[p].ipamAdd = 0
                  /\ loc[p].result = CreateResultFromEndpoint(w))
    /\ [][\A p \in Procs :
            (/\ pc[p] = "publish" /\ pc'[p] = "done" /\ loc[p].endpoint.ResourceVersion # 0)
              => loc'[p].result = results[loc[p].args.ContainerID]]_vars

\* the ADD on net2 for the container networked on net1 has succeeded
C21_Witness ==
    \E p \in Procs :
      /\ AddDone(p) /\ loc[p].exit = 0 /\ loc[p].wrote /\ Cid(p) = "abc123"
      /\ loc[p].conf.Name = "net2"
      /\ \E w \in pre[p].weps : w.ContainerID = "abc123" /\ w.Profiles = <<"net1">>
      /\ \E n \in weps : n.ContainerID = "abc123" /\ n.Profiles = <<"net1", "net2">>
      /\ Reserved(ipam, p, "abc123") = {} /\ ReservedFor(ipam, "abc123") # {}

Called(p, fn) == pc[p] = "done" /\ inv[p].cmd = "CALL" /\ inv[p].fn = fn

\* the node name by the order of the claim
NodenameByPriority(conf, hostname, file) ==
    IF conf.Nodename # "" THEN conf.Nodename
    ELSE IF file.state = "ok" /\ file.data # "" THEN file.data
    ELSE IF conf.Hostname # "" THEN conf.Hostname
    ELSE hostname

AsciiLower ==
    {"a","b","c","d","e","f","g","h","i","j","k","l","m",
     "n","o","p","q","r","s","t","u","v","w","x","y","z"}
AsciiUpper ==
    {"A","B","C","D","E","F","G","H","I","J","K","L","M",
     "N","O","P","Q","R","S","T","U","V","W","X","Y","Z"}
AsciiDigit == {"0","1","2","3","4","5","6","7","8","9"}
AllowedChar(ch) == ch \in AsciiLower \cup AsciiUpper \cup AsciiDigit \cup {"_", ".", "-"}
CharsOf(s) == { SubSeq(s, i, i) : i \in 1..Len(s) }

\* C24: ValidateNetworkName returns no error exactly when the name is not empty
\* and each of its characters is an ASCII letter, a digit, "_", "." or "-"; the
\* empty name and every other name are rejected.
C24_NetworkNameAccepted ==
    \A p \in Procs :
      Called(p, "ValidateNetworkName") =>
        LET name == inv[p].in.name
        IN  /\ (~loc[p].out.err) <=> (name # "" /\ \A ch \in CharsOf(name) : AllowedChar(ch))
            /\ name = "" => loc[p].out.err

\* a name of allowed characters and one newline after them is rejected
C24_Witness ==
    \E p \in Procs :
      /\ Called(p, "ValidateNetworkName")
      /\ inv[p].in.name = "net1\n"
      /\ loc[p].out.err

\* the stdin with nothing but the subnet under ipam replaced
WithSubnet(stdin, subnet) ==
    [Name |-> stdin.Name, Nodename |-> stdin.Nodename, Hostname |-> stdin.Hostname,
     IPAM |-> [Type |-> stdin.IPAM.Type, Subnet |-> subnet]]

\* "usePodCidr" in any letter case
AnyCaseUsePodCidr == {"usePodCidr", "usepodcidr", "USEPODCIDR"}

\* C25, as stated: CleanUpIPAM gives the delegate a stdin whose ipam.subnet is
\* "0.0.0.0/0", every other field kept, exactly when ipam.type is "host-local"
\* and ipam.subnet is "usePodCidr"; in every other case the stdin is unchanged.
C25_DummySubnetExactlyForUsePodCidr ==
    \A p \in Procs :
      Called(p, "CleanUpIPAM") =>
        LET stdin == inv[p].in.args.StdinData
            given == loc[p].out.StdinData
        IN  IF stdin.IPAM.Type = "host-local" /\ stdin.IPAM.Subnet = "usePodCidr"
            THEN given = WithSubnet(stdin, "0.0.0.0/0")
            ELSE given = stdin

\* C25, amended: the same with ipam.subnet equal to "usePodCidr" in any letter
\* case.
C25_DummySubnetForUsePodCidrAnyCase ==
    \A p \in Procs :
      Called(p, "CleanUpIPAM") =>
        LET stdin == inv[p].in.args.StdinData
            given == loc[p].out.StdinData
        IN  IF stdin.IPAM.Type = "host-local" /\ stdin.IPAM.Subnet \in AnyCaseUsePodCidr
            THEN given = WithSubnet(stdin, "0.0.0.0/0")
            ELSE given = stdin

\* host-local with the subnet "usePodCidr": the delegate is given "0.0.0.0/0"
\* and the rest of the stdin
C25_Witness ==
    \E p \in Procs :
      /\ Called(p, "CleanUpIPAM")
      /\ inv[p].in.args.StdinData.IPAM = [Type |-> "host-local", Subnet |-> "usePodCidr"]
      /\ inv[p].in.args.StdinData.Name = "net2"
      /\ inv[p].in.args.StdinData.Hostname = "namedHostname"
      /\ loc[p].out.StdinData.IPAM.Subnet = "0.0.0.0/0"
      /\ loc[p].out.StdinData.Name = "net2"
      /\ ~loc[p].out.err

\* the endpoints are of one workload: of one pod, or of one container
SameWorkload(w1, w2) ==
    /\ w1.Orchestrator = w2.Orchestrator
    /\ IF w1.Orchestrator = "k8s"
       THEN w1.Namespace = w2.Namespace /\ w1.Pod = w2.Pod
       ELSE w1.ContainerID = w2.ContainerID

\* the containers are sandboxes of one workload
SameContainerWorkload(c1, c2) ==
    IF c1.K8S_POD_NAME # "" /\ c1.K8S_POD_NAMESPACE # ""
    THEN c1.K8S_POD_NAME = c2.K8S_POD_NAME /\ c1.K8S_POD_NAMESPACE = c2.K8S_POD_NAMESPACE
    ELSE /\ ~(c2.K8S_POD_NAME # "" /\ c2.K8S_POD_NAMESPACE # "")
         /\ c1.ContainerID = c2.ContainerID

\* C26: the host-side names partition the host's links: the endpoints of two
\* pods, or of two ContainerIDs in the generic CNI mode, never have the same
\* host-side name, and a step of an invocation removes no link but one of a
\* sandbox of the invocation's own pod or container.
C26_HostVethNamesPartition ==
    /\ [](\A w1, w2 \in weps :
            w1.InterfaceName = w2.InterfaceName => SameWorkload(w1, w2))
    /\ [][\A l \in links \ links' :
            \E p \in Procs, c \in VethContainers :
              /\ pc'[p] # pc[p]
              /\ SameContainerWorkload(inv[p].c, c)
              /\ l.ns = NetnsOf(c.ContainerID)]_vars

\* the invocation is one of the generic CNI mode
GenericCNI(p) == ~(inv[p].c.K8S_POD_NAMESPACE # "" /\ inv[p].c.K8S_POD_NAME # "")

\* the profile with the rules an operator gives it
EditOf(q) == [q EXCEPT !.Egress = "Deny"]

\* C27: after an ADD of the generic CNI mode that exits 0 there is a profile with
\* the name of the network and the container's endpoint lists that name; and no
\* step of an ADD removes or changes a profile that is there.
C27_ProfileEnsured ==
    /\ [](\A p \in Procs :
            (AddDone(p) /\ loc[p].exit = 0 /\ GenericCNI(p)) =>
              /\ \E q \in profiles : q.Name = loc[p].conf.Name
              /\ \A q \in pre[p].profiles :
                   q.Name = loc[p].conf.Name => q \in profiles \/ EditOf(q) \in profiles
              /\ \E w \in weps :
                   /\ w.ContainerID = Cid(p)
                   /\ \E i \in 1..Len(w.Profiles) : w.Profiles[i] = loc[p].conf.Name)
    /\ [][\A p \in Procs :
            (inv'[p].cmd = "ADD" /\ pc'[p] # pc[p]) => profiles \subseteq profiles']_vars

\* an ADD has written a container's endpoint; the profile of the network was
\* there when it began, with rules an operator had set, and is as it was
C27_Witness ==
    \E p \in Procs :
      /\ AddDone(p) /\ loc[p].exit = 0 /\ loc[p].wrote /\ GenericCNI(p)
      /\ pre[p].profiles = {EditOf(DefaultProfile("net1"))}
      /\ profiles = pre[p].profiles
      /\ \E w \in weps : w.ContainerID = Cid(p) /\ w.Profiles = <<"net1">>

\* when the ADD began there was a link of its host-side name and no endpoint of
\* its workload: what an ADD that was killed after wiring leaves
StaleLink(p) ==
    /\ EndpointsOf(pre[p].weps, inv[p].c) = {}
    /\ \E l \in pre[p].links : l.host = HostVethName(loc[p].epIDs)

\* C28: an ADD that finds a link of its host-side name left by an ADD that was
\* killed, and meets no failure of IPAM (an empty pool included), wiring or
\* datastore, exits 0 with its
\* endpoint written and the only link of that name the one into its own
\* namespace; and a DEL exits 0 and leaves no interface of its name in the
\* namespace it was given.
C28_StaleLinkReplaced ==
    \A p \in Procs :
      /\ (AddDone(p) /\ inv[p].fault = "none" /\ ~loc[p].ipamFailed /\ StaleLink(p)) =>
           /\ loc[p].exit = 0
           /\ loc[p].wrote
           /\ \A l \in links :
                l.host = HostVethName(loc[p].epIDs) =>
                  l = [host |-> l.host, ns |-> loc[p].args.Netns,
                       ifname |-> loc[p].args.IfName]
           /\ Wired(links, p)
      /\ DelDone(p) => (loc[p].exit = 0 /\ ~Wired(links, p))

\* the link was left in the namespace of another sandbox of the pod, and is gone
C28_Witness ==
    \E p \in Procs :
      /\ AddDone(p) /\ inv[p].fault = "none" /\ StaleLink(p)
      /\ \E l \in pre[p].links :
           l.host = HostVethName(loc[p].epIDs) /\ l.ns # loc[p].args.Netns /\ l \notin links
      /\ loc[p].exit = 0 /\ Wired(links, p)

\* the endpoints the store holds under the key of wep
StoredAs(store, wep) == { w \in store : w.Namespace = wep.Namespace /\ w.Name = wep.Name }

\* C29: CreateOrUpdate makes one call of the datastore and returns what it
\* returns.  Without a ResourceVersion it is a Create: the endpoint is added
\* when its key is free, and refused, the store as it was, when the key is
\* taken.  With a ResourceVersion it is an Update with that version: the stored
\* endpoint is replaced when it has that version, and the call refused, the
\* store as it was, when the version differs (a conflict) or the key is absent;
\* no refused call is followed by the other one.
C29_OneDatastoreCall ==
    \A p \in Procs :
      Called(p, "CreateOrUpdate") =>
        LET store == inv[p].in.store
            wep == inv[p].in.wep
            written == [wep EXCEPT !.ResourceVersion = inv[p].in.rv]
            out == loc[p].out
        IN  IF wep.ResourceVersion = 0
            THEN IF StoredAs(store, wep) = {}
                 THEN ~out.err /\ out.store = store \cup {written}
                 ELSE out.err /\ ~out.conflict /\ out.store = store
            ELSE IF \E w \in StoredAs(store, wep) : w.ResourceVersion = wep.ResourceVersion
                 THEN ~out.err /\ out.store = (store \ StoredAs(store, wep)) \cup {written}
                 ELSE /\ out.err /\ out.store = store
                      /\ out.conflict <=> (StoredAs(store, wep) # {})

\* an endpoint that carries a version is given while the store has none of its
\* key: the Update is refused and nothing is created
C29_Witness ==
    \E p \in Procs :
      /\ Called(p, "CreateOrUpdate")
      /\ inv[p].in.wep.ResourceVersion = 2
      /\ inv[p].in.wep.ContainerID = "abc123"
      /\ \E w \in inv[p].in.store : w.ContainerID = "run1"
      /\ loc[p].out.err /\ ~loc[p].out.conflict
      /\ loc[p].out.store = inv[p].in.store

\* the links that are the interface ifname of the namespace netns
Found(lnks, netns, ifname) == { l \in lnks : l.ns = netns /\ l.ifname = ifname }

\* C30: CleanUpNamespace leaves the links alone and returns no error when
\* CNI_NETNS is empty, and when it is not empty and the interface is not found,
\* the namespace path that does not exist included; it returns an error only when
\* the interface is found and deleting it fails; a found interface whose
\* deletion succeeds is gone and no other link is.
C30_TeardownErrors ==
    \A p \in Procs :
      Called(p, "CleanUpNamespace") =>
        LET args == inv[p].in.args
            lnks == inv[p].in.links
            found == Found(lnks, args.Netns, args.IfName)
            out == loc[p].out
        IN  /\ args.Netns = "" => (~out.err /\ out.links = lnks)
            /\ (args.Netns # "" /\ found = {}) => (~out.err /\ out.links = lnks)
            /\ out.err <=> (args.Netns # "" /\ found # {} /\ ~inv[p].in.delOK)
            /\ out.err => out.links = lnks
            /\ (args.Netns # "" /\ found # {} /\ inv[p].in.delOK) => out.links = lnks \ found

\* called with a namespace path that does not exist while the host has links:
\* no error, the links as they were
C30_Witness ==
    \E p \in Procs :
      /\ Called(p, "CleanUpNamespace")
      /\ inv[p].in.args.Netns = NoPath
      /\ inv[p].in.links # {}
      /\ ~inv[p].in.delOK
      /\ ~loc[p].out.err
      /\ loc[p].out.links = inv[p].in.links

\* C31: ReleaseIPAllocation sets CNI_COMMAND to DEL and runs the delegate of the
\* type it was given once, in DEL mode, with the stdin it was given; when
\* CNI_COMMAND cannot be set the delegate is not run; and whether setting the
\* variable or the delegate fails, the caller is given no error.  A delegate
\* that fails, or is not run, releases nothing.
C31_ReleaseOnlyLogs ==
    \A p \in Procs :
      Called(p, "ReleaseIPAllocation") =>
        LET in == inv[p].in
            out == loc[p].out
        IN  /\ ~out.err
            /\ in.setenvOK =>
                 out.runs = <<[plugin |-> in.ipamType, CNI_COMMAND |-> "DEL",
                               stdin |-> in.stdinData]>>
            /\ ~in.setenvOK => out.runs = <<>>
            /\ (~in.setenvOK \/ ~in.delegateOK) => out.store = in.store
            /\ (in.setenvOK /\ in.delegateOK) =>
                 out.store = { r \in in.store :
                                 r.handle # in.stdinData.Name \o "." \o in.args.ContainerID }

\* CNI_COMMAND could not be set: no run of the delegate, no error, the
\* reservation still there
C31_Witness ==
    \E p \in Procs :
      /\ Called(p, "ReleaseIPAllocation")
      /\ ~inv[p].in.setenvOK
      /\ inv[p].in.stdinData.Name = "net1"
      /\ \E r \in inv[p].in.store : r.handle = "net1.abc123"
      /\ loc[p].out.runs = <<>>
      /\ ~loc[p].out.err
      /\ loc[p].out.store = inv[p].in.store

\* C32: a DEL whose IPAM release fails goes on to delete the endpoint: it exits
\* 0 and the endpoint that named its sandbox is gone from the datastore, all
\* other endpoints as they were.
C32_ReleaseFailureNotFatal ==
    \A p \in Procs :
      (DelDone(p) /\ loc[p].ipamErr) =>
        /\ loc[p].exit = 0
        /\ \A w \in weps : w.ContainerID # Cid(p)
        /\ weps = { w \in pre[p].weps : w.ContainerID # Cid(p) }

\* the release failed, the endpoint of the sandbox was there and is deleted, and
\* its address is still reserved
C32_Witness ==
    \E p \in Procs :
      /\ DelDone(p) /\ loc[p].ipamErr /\ loc[p].exit = 0
      /\ \E w \in pre[p].weps : w.ContainerID = Cid(p)
      /\ weps = {}
      /\ Reserved(ipam, p, Cid(p)) # {}

\* the characters of s from position i on
From(s, i) == SubSeq(s, i, Len(s))

\* where the k-th copy of the option begins in a value that begins with copies
\* of it, each followed by ";"
CopyAt(k) == (k - 1) * (Len("IgnoreUnknown=1") + 1) + 1

RejectedName(name) == name = "" \/ \E ch \in CharsOf(name) : ~AllowedChar(ch)

\* C34: CreateClient called with a network name that ValidateNetworkName
\* rejects returns an error, makes no client and leaves every variable of the
\* environment as it was.
C34_BadNameNoSideEffect ==
    \A p \in Procs :
      (Called(p, "CreateClient") /\ RejectedName(inv[p].in.conf.Name)) =>
        /\ loc[p].out.err
        /\ loc[p].out.client = [made |-> FALSE]
        /\ loc[p].out.env = inv[p].in.env

\* a rejected name, every field of the NetConf given, a client that could be
\* made: an error and the environment untouched
C34_Witness ==
    \E p \in Procs :
      /\ Called(p, "CreateClient")
      /\ inv[p].in.conf.Name = "net 1"
      /\ inv[p].in.conf.EtcdEndpoints # "" /\ inv[p].in.conf.Policy.K8sAuthToken # ""
      /\ inv[p].in.failAt = "none" /\ inv[p].in.loadOK
      /\ inv[p].in.env["ETCD_ENDPOINTS"] = "env:ETCD_ENDPOINTS"
      /\ loc[p].out.err
      /\ loc[p].out.env = inv[p].in.env

\* the variable has the value of the field when the field is not empty, and
\* the value it had otherwise
SetFrom(p, var, field) ==
    loc[p].out.env[var] = IF field # "" THEN field ELSE inv[p].in.env[var]

\* C35: CreateClient, given an accepted network name and no failure of
\* os.Setenv, leaves each of ETCD_ENDPOINTS, ETCD_AUTHORITY, ETCD_SCHEME,
\* ETCD_KEY_FILE, ETCD_CERT_FILE, ETCD_CA_CERT_FILE, DATASTORE_TYPE, KUBECONFIG,
\* K8S_API_ENDPOINT and K8S_API_TOKEN with the value of its NetConf field when
\* the field is not empty and with the value it had when the field is empty.
C35_EnvFromNetConf ==
    \A p \in Procs :
      (/\ Called(p, "CreateClient")
       /\ ~RejectedName(inv[p].in.conf.Name)
       /\ inv[p].in.failAt = "none") =>
        LET conf == inv[p].in.conf
        IN  /\ SetFrom(p, "ETCD_ENDPOINTS", conf.EtcdEndpoints)
            /\ SetFrom(p, "ETCD_AUTHORITY", conf.EtcdAuthority)
            /\ SetFrom(p, "ETCD_SCHEME", conf.EtcdScheme)
            /\ SetFrom(p, "ETCD_KEY_FILE", conf.EtcdKeyFile)
            /\ SetFrom(p, "ETCD_CERT_FILE", conf.EtcdCertFile)
            /\ SetFrom(p, "ETCD_CA_CERT_FILE", conf.EtcdCaCertFile)
            /\ SetFrom(p, "DATASTORE_TYPE", conf.DatastoreType)
            /\ SetFrom(p, "KUBECONFIG", conf.Kubernetes.Kubeconfig)
            /\ SetFrom(p, "K8S_API_ENDPOINT", conf.Kubernetes.K8sAPIRoot)
            /\ SetFrom(p, "K8S_API_TOKEN", conf.Policy.K8sAuthToken)

\* only the kubeconfig is given, in an environment that has some variables set:
\* KUBECONFIG is overwritten and the others are as they were
C35_Witness ==
    \E p \in Procs :
      /\ Called(p, "CreateClient")
      /\ inv[p].in.conf.Name = "net1" /\ inv[p].in.failAt = "none"
      /\ inv[p].in.conf.Kubernetes.Kubeconfig = "netconf:KUBECONFIG"
      /\ inv[p].in.conf.EtcdEndpoints = ""
      /\ inv[p].in.env["KUBECONFIG"] = "env:KUBECONFIG"
      /\ inv[p].in.env["ETCD_ENDPOINTS"] = "env:ETCD_ENDPOINTS"
      /\ loc[p].out.env["KUBECONFIG"] = "netconf:KUBECONFIG"
      /\ loc[p].out.env["ETCD_ENDPOINTS"] = "env:ETCD_ENDPOINTS"
      /\ loc[p].out.env["ETCD_SCHEME"] = ""

\* the Version of the entry is the one of its address's family
VersionMatches(ipc) == (ipc.Version = "4") <=> (ipc.Address.IP.fam = 4)

\* the CIDR text of the entry's address as a host route of its Version
HostCIDR(ipc) == [ip |-> ipc.Address.IP, ones |-> IF ipc.Version = "4" THEN 32 ELSE 128]

\* PopulateEndpointNets on the entries that satisfy `counted`: an error and the
\* endpoint as it was when the Result has no IPs; else the entries the endpoint
\* had, then one per IP in the Result's order, and for each counted IP the
\* host CIDR of its Version
PopulateAppends(p, counted(_)) ==
    LET old == inv[p].in.wep.IPNetworks
        ips == inv[p].in.result.IPs
        new == loc[p].out.wep.IPNetworks
    IN  IF Len(ips) = 0
        THEN loc[p].out.err /\ new = old
        ELSE /\ ~loc[p].out.err
             /\ Len(new) = Len(old) + Len(ips)
             /\ SubSeq(new, 1, Len(old)) = old
             /\ \A i \in 1..Len(ips) : counted(ips[i]) => new[Len(old) + i] = HostCIDR(ips[i])

AnyEntry(ipc) == TRUE

\* C36, as stated: PopulateEndpointNets returns an error and leaves IPNetworks
\* when the Result has no IPs; else it appends, in the Result's order and after
\* the entries already there, one CIDR per IP, /32 for Version "4" and /128
\* otherwise.
C36_AppendsHostRoutes ==
    \A p \in Procs : Called(p, "PopulateEndpointNets") => PopulateAppends(p, AnyEntry)

\* C36, amended: the same, the mask being /32 for Version "4" and /128 otherwise
\* for every IP whose Version is the one of its address's family.
C36_AppendsHostRoutesOfMatchingVersion ==
    \A p \in Procs : Called(p, "PopulateEndpointNets") => PopulateAppends(p, VersionMatches)

\* an IPv4 and an IPv6 address of the delegate are appended, as /32 and /128, to
\* an endpoint that listed an address
C36_Witness ==
    \E p \in Procs :
      /\ Called(p, "PopulateEndpointNets")
      /\ inv[p].in.wep.IPNetworks = <<[ip |-> IPv4(2), ones |-> 32]>>
      /\ Len(inv[p].in.result.IPs) = 2
      /\ inv[p].in.result.IPs[1].Address.Mask = CIDRMask(SubnetBits, 32)
      /\ \A i \in 1..2 : VersionMatches(inv[p].in.result.IPs[i])
      /\ loc[p].out.wep.IPNetworks =
           <<[ip |-> IPv4(2), ones |-> 32], [ip |-> IPv4(1), ones |-> 32],
             [ip |-> IPv6(2), ones |-> 128]>>

\* the text is a CIDR: an address of a family with a prefix length within it
ValidCIDR(v) ==
    \/ v.ip.fam = 4 /\ v.ones \in 0..32
    \/ v.ip.fam = 6 /\ v.ones \in 0..128

\* the entry with the host mask of its address's family
AsHostRoute(ipc) ==
    [Version |-> ipc.Version,
     Address |-> [IP |-> ipc.Address.IP,
                  Mask |-> IF ipc.Address.IP.fam = 4 THEN CIDRMask(32, 32)
                           ELSE CIDRMask(128, 128)]]

\* C37: for a Result of one or more IPs, the Version of each being the one of
\* its address's family, CreateResultFromEndpoint on an endpoint that
\* PopulateEndpointNets has just filled from it returns the same addresses in
\* the same order, each under the host mask and with the same Version; and on
\* an endpoint that lists a text that is not a CIDR it returns an error and no
\* Result.
C37_ResultRoundTrip ==
    \A p \in Procs :
      /\ ( /\ Called(p, "CreateResultFromPopulated")
           /\ Len(inv[p].in.result.IPs) >= 1
           /\ \A i \in 1..Len(inv[p].in.result.IPs) : VersionMatches(inv[p].in.result.IPs[i]) )
         => /\ ~loc[p].out.err
            /\ loc[p].out.IPs = [i \in 1..Len(inv[p].in.result.IPs) |->
                                   AsHostRoute(inv[p].in.result.IPs[i])]
      /\ ( /\ Called(p, "CreateResultFromEndpoint")
           /\ \E i \in 1..Len(inv[p].in.IPNetworks) : ~ValidCIDR(inv[p].in.IPNetworks[i]) )
         => loc[p].out.err /\ loc[p].out.IPs = <<>>

\* an IPv4 address of a subnet and an IPv6 address come back as host routes
\* with Versions "4" and "6"
C37_Witness ==
    \E p \in Procs :
      /\ Called(p, "CreateResultFromPopulated")
      /\ Len(inv[p].in.result.IPs) = 2
      /\ inv[p].in.result.IPs[1] =
           [Version |-> "4", Address |-> [IP |-> IPv4(1), Mask |-> CIDRMask(SubnetBits, 32)]]
      /\ inv[p].in.result.IPs[2].Address.IP.fam = 6
      /\ ~loc[p].out.err
      /\ loc[p].out.IPs[1] = [Version |-> "4", Address |-> [IP |-> IPv4(1), Mask |-> CIDRMask(32, 32)]]
      /\ loc[p].out.IPs[2].Version = "6"

\* C38: the handle IDs GetHandleID computes for two different pairs of a
\* network name that ValidateNetworkName accepts and a ContainerID are
\* different.
C38_HandleIDsDistinct ==
    \A p \in Procs :
      ( /\ Called(p, "GetHandleID")
        /\ ValidateNetworkName(inv[p].in.first.netName)
        /\ ValidateNetworkName(inv[p].in.second.netName)
        /\ inv[p].in.first # inv[p].in.second )
      => loc[p].out.first # loc[p].out.second

\* the link an ADD of the invocation's container makes
OwnLink(p) ==
    [host |-> HostVethName(loc[p].epIDs), ns |-> loc[p].args.Netns,
     ifname |-> loc[p].args.IfName]

\* when the invocation began the stores held what an ADD of the same container
\* leaves when it is killed in a clean state after its allocation (one address
\* under the handle), after its wiring (and the link), or after its write (and
\* the endpoint), and nothing else
LeftByKilledAdd(p) ==
    /\ Cardinality(pre[p].ipam) = 1
    /\ Cardinality(Reserved(pre[p].ipam, p, Cid(p))) = 1
    /\ pre[p].links \subseteq {OwnLink(p)}
    /\ Cardinality(pre[p].weps) <= 1
    /\ \A w \in pre[p].weps : w.ContainerID = Cid(p) /\ pre[p].links # {}

\* a complete ADD after the killed one succeeds and leaves one endpoint, of its
\* ContainerID, and one address reserved under its handle
ReexecutedAddHolds(p) ==
    (AddDone(p) /\ inv[p].fault = "none" /\ LeftByKilledAdd(p)) =>
      /\ loc[p].exit = 0
      /\ Cardinality(EndpointsOf(weps, inv[p].c)) = 1
      /\ \A w \in EndpointsOf(weps, inv[p].c) : w.ContainerID = Cid(p)
      /\ Cardinality(Reserved(ipam, p, Cid(p))) = 1

\* a DEL of the ContainerID the endpoint names leaves neither
FollowingDelHolds(p) ==
    (DelDone(p) /\ \E w \in EndpointsOf(pre[p].weps, inv[p].c) : w.ContainerID = Cid(p)) =>
      /\ loc[p].exit = 0
      /\ EndpointsOf(weps, inv[p].c) = {}
      /\ Reserved(ipam, p, Cid(p)) = {}

\* C39: ADD is safe to re-execute.  After an ADD that was killed after its
\* allocation, its wiring or its write of the endpoint, a complete ADD for the
\* same container and network succeeds and leaves exactly one WorkloadEndpoint
\* and exactly one address reserved for the container; and a DEL of that
\* ContainerID afterwards leaves no endpoint and no reservation.
C39_AddReexecutable ==
    \A p \in Procs : ReexecutedAddHolds(p) /\ FollowingDelHolds(p)

====
